---------------------------- MODULE Spec2Model ----------------------------
(***************************************************************************)
(* A model of pim_item_analysis: the file-to-table ingestion engine        *)
(* (loaders.py), the schema, label and snapshot queries (db.py) and the    *)
(* multi-file commands (main.py).                                          *)
(*                                                                         *)
(* Text that the code parses (file names, sheet titles, table names) is a  *)
(* sequence of one-character strings, so that normalize_name, file_prefix  *)
(* and get_export_date_from_file are computed as the code computes them.   *)
(* A timestamp is <<year, month, day, hour, minute, second>>.              *)
(***************************************************************************)
EXTENDS Integers, Sequences, FiniteSets, TLC

(***************************************************************************)
(* Characters and strings                                                  *)
(***************************************************************************)
UpperLetters ==
    <<"A","B","C","D","E","F","G","H","I","J","K","L","M",
      "N","O","P","Q","R","S","T","U","V","W","X","Y","Z">>

LowerLetters ==
    <<"a","b","c","d","e","f","g","h","i","j","k","l","m",
      "n","o","p","q","r","s","t","u","v","w","x","y","z">>

Digits == <<"0","1","2","3","4","5","6","7","8","9">>

Range(s) == {s[i] : i \in DOMAIN s}

\* str.lower() on one character
LowerChar(c) ==
    IF \E i \in DOMAIN UpperLetters : UpperLetters[i] = c
    THEN LowerLetters[CHOOSE i \in DOMAIN UpperLetters : UpperLetters[i] = c]
    ELSE c

lower(s) == [i \in DOMAIN s |-> LowerChar(s[i])]

IsDigit(c) == c \in Range(Digits)

DigitVal(c) == (CHOOSE i \in DOMAIN Digits : Digits[i] = c) - 1

\* the class [a-z0-9] of normalize_name's pattern
IsAlnum(c) == c \in Range(LowerLetters) \/ IsDigit(c)

\* re.sub(r"[^a-z0-9]", "_", s): every other character becomes a "_" of
\* its own
RECURSIVE SubEach(_, _)
SubEach(s, inRun) ==
    IF s = <<>> THEN <<>>
    ELSE IF IsAlnum(Head(s)) THEN <<Head(s)>> \o SubEach(Tail(s), FALSE)
    ELSE <<"_">> \o SubEach(Tail(s), TRUE)

\* re.sub(r"[^a-z0-9]+", "_", s): every maximal run of other characters
\* becomes one "_"
RECURSIVE SubRuns(_, _)
SubRuns(s, inRun) ==
    IF s = <<>> THEN <<>>
    ELSE IF IsAlnum(Head(s)) THEN <<Head(s)>> \o SubRuns(Tail(s), FALSE)
    ELSE IF inRun THEN SubRuns(Tail(s), TRUE)
    ELSE <<"_">> \o SubRuns(Tail(s), TRUE)

\* str.strip("_")
RECURSIVE LStrip(_)
LStrip(s) ==
    IF s # <<>> /\ Head(s) = "_" THEN LStrip(Tail(s)) ELSE s

RECURSIVE RStrip(_)
RStrip(s) ==
    IF s # <<>> /\ s[Len(s)] = "_" THEN RStrip(SubSeq(s, 1, Len(s) - 1)) ELSE s

\* a normalize_name that does not strip the "_" at the ends
normalize_unstripped(name) == SubRuns(lower(name), FALSE)

normalize_name(name) == RStrip(LStrip(SubRuns(lower(name), FALSE)))

\* str.split("_"): the segments between the separators, empty ones kept
RECURSIVE SplitAcc(_, _)
SplitAcc(s, cur) ==
    IF s = <<>> THEN <<cur>>
    ELSE IF Head(s) = "_" THEN <<cur>> \o SplitAcc(Tail(s), <<>>)
    ELSE SplitAcc(Tail(s), Append(cur, Head(s)))

split(s) == SplitAcc(s, <<>>)

\* "_".join(parts)
RECURSIVE join(_)
join(parts) ==
    IF parts = <<>> THEN <<>>
    ELSE IF Len(parts) = 1 THEN parts[1]
    ELSE parts[1] \o <<"_">> \o join(Tail(parts))

\* Path.stem: the name without its last suffix (a leading dot is no suffix)
LastDot(s) ==
    IF \E i \in DOMAIN s : s[i] = "."
    THEN CHOOSE i \in DOMAIN s : s[i] = "." /\ \A j \in i+1..Len(s) : s[j] # "."
    ELSE 0

stem(s) == IF LastDot(s) > 1 /\ LastDot(s) < Len(s) THEN SubSeq(s, 1, LastDot(s) - 1) ELSE s

\* the outcome of a call: Ok(v) when it returns v, Raise(kind) when it raises
Ok(v) == [err |-> FALSE, kind |-> "", val |-> v]

\* a call that raises after it has brought the store to state v
Fail(kind, v) == [err |-> TRUE, kind |-> kind, val |-> v]

Raise(kind) == Fail(kind, <<>>)

file_prefix(file_name) ==
    LET file_name_parts == split(normalize_name(stem(file_name)))
    IN  IF Len(file_name_parts) < 2 THEN Raise("ValueError")
        ELSE IF file_name_parts[2] = <<>> THEN Raise("IndexError")
        ELSE IF IsDigit(file_name_parts[2][1]) THEN Ok(file_name_parts[1])
        ELSE Ok(join(SubSeq(file_name_parts, 1, 2)))

(***************************************************************************)
(* Timestamps                                                              *)
(***************************************************************************)
IsLeap(y) == (y % 4 = 0 /\ y % 100 # 0) \/ y % 400 = 0

DaysInMonth(y, m) ==
    IF m = 2 THEN (IF IsLeap(y) THEN 29 ELSE 28)
    ELSE IF m \in {4, 6, 9, 11} THEN 30 ELSE 31

\* what the datetime constructor accepts
ValidDateTime(dt) ==
    /\ dt[1] >= 1 /\ dt[1] <= 9999
    /\ dt[2] >= 1 /\ dt[2] <= 12
    /\ dt[3] >= 1 /\ dt[3] <= DaysInMonth(dt[1], dt[2])
    /\ dt[4] <= 23 /\ dt[5] <= 59 /\ dt[6] <= 59

\* lexicographic order of timestamps (the order of their ISO text)
RECURSIVE DateLess(_, _)
DateLess(a, b) ==
    IF a = <<>> \/ b = <<>> THEN FALSE
    ELSE IF Head(a) # Head(b) THEN Head(a) < Head(b)
    ELSE DateLess(Tail(a), Tail(b))

\* int() of a run of decimal digits
RECURSIVE ToInt(_)
ToInt(ds) ==
    IF ds = <<>> THEN 0 ELSE 10 * ToInt(SubSeq(ds, 1, Len(ds) - 1)) + DigitVal(ds[Len(ds)])

\* number of consecutive digits of s from position i on
RECURSIVE DigitRun(_, _)
DigitRun(s, i) ==
    IF i <= Len(s) /\ IsDigit(s[i]) THEN 1 + DigitRun(s, i + 1) ELSE 0

\* whether ".csv" occurs in s at or after position i
HasCsvFrom(s, i) ==
    \E j \in i..(Len(s) - 3) : j >= 1 /\ SubSeq(s, j, j + 3) = <<".", "c", "s", "v">>

\* the positions p of a "_" from which r".*_(\d{12,14}).*\.csv" can match
DatePositions(s) ==
    {p \in DOMAIN s :
        /\ s[p] = "_"
        /\ DigitRun(s, p + 1) >= 12
        /\ HasCsvFrom(s, p + 1 + DigitRun(s, p + 1))}

\* datetime.strptime(text_date, "%y%m%d%H%M%S") for 12 digits and
\* "%Y%m%d%H%M%S" for 14
strptime(text_date) ==
    LET n    == Len(text_date)
        yLen == IF n = 12 THEN 2 ELSE 4
        yRaw == ToInt(SubSeq(text_date, 1, yLen))
        year == IF n = 14 THEN yRaw ELSE IF yRaw <= 68 THEN 2000 + yRaw ELSE 1900 + yRaw
        f(k) == ToInt(SubSeq(text_date, yLen + 2 * k - 1, yLen + 2 * k))
        dt   == <<year, f(1), f(2), f(3), f(4), f(5)>>
    IN  IF ValidDateTime(dt) THEN Ok(dt) ELSE Raise("ValueError")

get_export_date_from_file(filename) ==
    LET ps == DatePositions(filename)
    IN  IF ps = {} THEN Raise("ValueError")
        ELSE LET p == CHOOSE q \in ps : \A r \in ps : r <= q
                 run == DigitRun(filename, p + 1)
                 n == IF run > 14 THEN 14 ELSE run
                 text_date == SubSeq(filename, p + 1, p + n)
             IN  IF n = 12 \/ n = 14 THEN strptime(text_date)
                 ELSE Raise("ValueError")

(***************************************************************************)
(* Table names the code spells out                                         *)
(***************************************************************************)
ItemAvailability == <<"i","t","e","m","_","a","v","a","i","l","a","b","i","l","i","t","y">>

ItemTexts == <<"i","t","e","m","_","t","e","x","t","s">>

SkusStatus == <<"s","k","u","s","_","s","t","a","t","u","s">>

DocCert == <<"d","o","c","_","c","e","r","t","_","d","a","t","a","_","t","e","m","p","l","a","t","e">>

DocSku == <<"d","o","c","_","s","k","u","_","d","a","t","a","_","t","e","m","p","l","a","t","e">>

SkuList == <<"s","k","u","_","l","i","s","t","_","c","o","m","p","l","e","t","e","_",
             "t","r","a","n","s","l","a","t","i","o","n">>

PimSkuLoad == <<"p","i","m","_","s","k","u","_","l","o","a","d">>

(***************************************************************************)
(* The store.  tables maps the name of each existing data table to         *)
(*   [cols: column names, index: columns of <name>_unique_index or <<>>,   *)
(*    rows: stored rows in insertion order, seq: its sqlite_sequence].     *)
(* A row maps each column to its value: a text is a sequence of            *)
(* characters, a snapshot key a timestamp, id a number, NULL SQL's NULL.   *)
(* labels maps "pim", "hybris", "doc" to the table labels_<type>.          *)
(***************************************************************************)
NULL == <<"NULL">>

\* Python's None where a label is expected
None == "<None>"

DatasetTypes == {"pim", "hybris", "doc"}

NoLabelTable == [exists |-> FALSE, rows |-> <<>>, seq |-> 0]

EmptyStore == [tables |-> <<>>, labels |-> [d \in DatasetTypes |-> NoLabelTable]]

Index(seq, x) == CHOOSE i \in DOMAIN seq : seq[i] = x

\* two rows that a unique index over K does not admit together
SameKey(r1, r2, K) ==
    \A i \in DOMAIN K : r1[K[i]] # NULL /\ r1[K[i]] = r2[K[i]]

HasDuplicates(rows, K) ==
    \E i, j \in DOMAIN rows : i < j /\ SameKey(rows[i], rows[j], K)

db_table_exists(tables, table_name) == table_name \in DOMAIN tables

\* a db_drop_tables that removes nothing
drop_nothing(tables, tables_list) == tables

\* DROP TABLE IF EXISTS for each name (the index and the sequence go with it)
db_drop_tables(tables, tables_list) ==
    [n \in DOMAIN tables \ Range(tables_list) |-> tables[n]]

\* a db_create_table that creates the table and no index
create_table_only(tables, table_name, columns, unique_index_columns) ==
    IF db_table_exists(tables, table_name) THEN Ok(tables)
    ELSE Ok([n \in DOMAIN tables \cup {table_name} |->
                IF n = table_name
                THEN [cols |-> columns, index |-> <<>>, rows |-> <<>>, seq |-> 0]
                ELSE tables[n]])

\* CREATE TABLE IF NOT EXISTS, then CREATE UNIQUE INDEX IF NOT EXISTS
db_create_table(tables, table_name, columns, unique_index_columns) ==
    LET created ==
            IF db_table_exists(tables, table_name) THEN tables
            ELSE [n \in DOMAIN tables \cup {table_name} |->
                    IF n = table_name
                    THEN [cols |-> columns, index |-> <<>>, rows |-> <<>>, seq |-> 0]
                    ELSE tables[n]]
        t == created[table_name]
    IN  IF unique_index_columns = <<>> THEN Ok(created)
        ELSE IF t.index # <<>> THEN Ok(created)
        ELSE IF \E i \in DOMAIN unique_index_columns :
                    unique_index_columns[i] \notin Range(t.cols)
             THEN Fail("OperationalError", created)
        ELSE IF HasDuplicates(t.rows, unique_index_columns)
             THEN Fail("IntegrityError", created)
        ELSE Ok([created EXCEPT ![table_name].index = unique_index_columns])

\* an INSERT OR REPLACE in the place of the INSERT OR IGNORE: the stored rows
\* with the key of the new row give way to it
InsertOrReplace(t, columns, values) ==
    LET new == [c \in Range(t.cols) |->
                   IF c = "id" THEN t.seq + 1
                   ELSE IF c \in Range(columns) THEN values[Index(columns, c)]
                   ELSE NULL]
        kept == SelectSeq(t.rows, LAMBDA r : t.index = <<>> \/ ~SameKey(r, new, t.index))
    IN  [t EXCEPT !.seq = @ + 1, !.rows = Append(kept, new)]

\* one INSERT OR IGNORE: the row gets the next id; it is stored unless a
\* stored row has its unique-index key
InsertOrIgnore(t, columns, values) ==
    LET new == [c \in Range(t.cols) |->
                   IF c = "id" THEN t.seq + 1
                   ELSE IF c \in Range(columns) THEN values[Index(columns, c)]
                   ELSE NULL]
        ignored == /\ t.index # <<>>
                   /\ \E i \in DOMAIN t.rows : SameKey(t.rows[i], new, t.index)
    IN  [t EXCEPT !.seq = @ + 1,
                  !.rows = IF ignored THEN @ ELSE Append(@, new)]

\* cursor.executemany(sql, data) of an INSERT OR IGNORE statement
RECURSIVE InsertAll(_, _, _)
InsertAll(t, columns, data) ==
    IF data = <<>> THEN t
    ELSE InsertAll(InsertOrIgnore(t, columns, Head(data)), columns, Tail(data))

\* an executemany whose rowcount is the number of rows presented
executemany_presented(tables, table_name, columns, data) ==
    IF ~db_table_exists(tables, table_name) THEN Fail("OperationalError", tables)
    ELSE LET t == tables[table_name]
         IN  IF \E i \in DOMAIN columns : columns[i] \notin Range(t.cols)
             THEN Fail("OperationalError", tables)
             ELSE Ok(<<[tables EXCEPT ![table_name] = InsertAll(t, columns, data)],
                      Len(data)>>)

\* an executemany that first adds to the table the columns it lacks
executemany_add_columns(tables, table_name, columns, data) ==
    IF ~db_table_exists(tables, table_name) THEN Fail("OperationalError", tables)
    ELSE LET t == tables[table_name]
             cols == t.cols \o SelectSeq(columns, LAMBDA c : c \notin Range(t.cols))
             wide == [cols |-> cols, index |-> t.index, seq |-> t.seq,
                      rows |-> [i \in DOMAIN t.rows |->
                                   [c \in Range(cols) |->
                                       IF c \in Range(t.cols) THEN t.rows[i][c]
                                       ELSE NULL]]]
             t2 == InsertAll(wide, columns, data)
         IN  Ok(<<[tables EXCEPT ![table_name] = t2], Len(t2.rows) - Len(t.rows)>>)

\* executemany and commit on an existing table; val is <<tables, rowcount>>
executemany(tables, table_name, columns, data) ==
    IF ~db_table_exists(tables, table_name) THEN Fail("OperationalError", tables)
    ELSE LET t == tables[table_name]
         IN  IF \E i \in DOMAIN columns : columns[i] \notin Range(t.cols)
             THEN Fail("OperationalError", tables)
             ELSE LET t2 == InsertAll(t, columns, data)
                  IN  Ok(<<[tables EXCEPT ![table_name] = t2],
                           Len(t2.rows) - Len(t.rows)>>)

db_create_label_tables(labels) ==
    [d \in DOMAIN labels |->
        IF labels[d].exists THEN labels[d] ELSE [NoLabelTable EXCEPT !.exists = TRUE]]

\* an insert that leaves the label of a date that has one: ON CONFLICT DO
\* NOTHING
UpsertKeepFirst(lt, dataset_datetime, label) ==
    IF \E i \in DOMAIN lt.rows : lt.rows[i].date = dataset_datetime
    THEN [lt EXCEPT !.seq = @ + 1]
    ELSE [lt EXCEPT !.seq = @ + 1,
                    !.rows = Append(@, [id |-> lt.seq + 1,
                                        date |-> dataset_datetime,
                                        label |-> label])]

\* INSERT ... ON CONFLICT (date) DO UPDATE SET label = ?
Upsert(lt, dataset_datetime, label) ==
    IF \E i \in DOMAIN lt.rows : lt.rows[i].date = dataset_datetime
    THEN [lt EXCEPT !.seq = @ + 1,
                    !.rows = [i \in DOMAIN lt.rows |->
                                 IF lt.rows[i].date = dataset_datetime
                                 THEN [lt.rows[i] EXCEPT !.label = label]
                                 ELSE lt.rows[i]]]
    ELSE [lt EXCEPT !.seq = @ + 1,
                    !.rows = Append(@, [id |-> lt.seq + 1,
                                        date |-> dataset_datetime,
                                        label |-> label])]

db_add_label(labels, dataset_type, dataset_datetime, label) ==
    LET created == db_create_label_tables(labels)
    IN  [created EXCEPT ![dataset_type] = Upsert(@, dataset_datetime, label)]

\* the label db_get_label_for_date returns (it creates the label tables first)
db_get_label_for_date(labels, dataset_type, dataset_datetime) ==
    LET rows == labels[dataset_type].rows
    IN  IF \E i \in DOMAIN rows : rows[i].date = dataset_datetime
        THEN rows[CHOOSE i \in DOMAIN rows : rows[i].date = dataset_datetime].label
        ELSE None

(***************************************************************************)
(* Inputs                                                                  *)
(***************************************************************************)
Csv == <<".","c","s","v">>

\* "_20240411090811" and "_240412090811": a 14-digit and a 12-digit stamp
Stamp1 == <<"_","2","0","2","4","0","4","1","1","0","9","0","8","1","1">>

Stamp2 == <<"_","2","4","0","4","1","2","0","9","0","8","1","1">>

Date1 == <<2024, 4, 11, 9, 8, 11>>

Date2 == <<2024, 4, 12, 9, 8, 11>>

ItemA == <<"A">>

ItemB == <<"B">>

ValX == <<"x">>

ValY == <<"y">>

PimHeader == <<"Item no.", "Name">>

TextsHeader == <<"Item.Item no.", "SKU">>

\* feed files: name, header line, data lines
Avail1 ==
    [name |-> ItemAvailability \o Stamp1 \o Csv, header |-> PimHeader,
     rows |-> <<<<ItemA, ValX>>, <<ItemB, ValX>>>>]

AvailV2 ==
    [name |-> ItemAvailability \o <<"_","v","2">> \o Stamp1 \o Csv, header |-> PimHeader,
     rows |-> <<<<ItemA, ValY>>, <<ItemA, ValX>>>>]

Avail2 ==
    [name |-> ItemAvailability \o Stamp2 \o Csv, header |-> PimHeader,
     rows |-> <<<<ItemA, ValX>>>>]

Texts1 ==
    [name |-> ItemTexts \o Stamp1 \o Csv, header |-> TextsHeader,
     rows |-> <<<<ItemA, ValX>>>>]

PimFiles == {Avail1, AvailV2, Avail2, Texts1}

Xlsx == <<".","x","l","s","x">>

\* status workbooks: name, creation time, header row and rows of sheet 1
Status1 ==
    [name |-> SkusStatus \o <<"_","1","1","_","0","4">> \o Xlsx,
     ctime |-> Date1 \o <<300000>>, header |-> <<"SKU", "Status">>,
     rows |-> <<<<ItemA, ValX>>, <<ItemB, ValX>>>>]

Status2 ==
    [name |-> SkusStatus \o <<"_","1","2","_","0","4">> \o Xlsx,
     ctime |-> <<2024, 4, 11, 9, 8, 10, 700000>>, header |-> <<"SKU", "Status">>,
     rows |-> <<<<ItemA, ValX>>, <<ItemA, ValX>>>>]

Status3 ==
    [name |-> SkusStatus \o <<"_","1","3","_","0","4">> \o Xlsx,
     ctime |-> Date2 \o <<0>>, header |-> <<"SKU", "Status">>,
     rows |-> <<<<ItemA, ValY>>>>]

HybrisFiles == {Status1, Status2, Status3}

\* the configuration the document loader consumes (config.toml)
Doc == <<"d","o","c">>

DocConfig ==
    [file_prefixes |-> <<Doc>>,
     file_sheets |-> [pfx \in {Doc} |-> <<DocCert, DocSku>>],
     sheet_headers |->
        [sh \in {DocCert, DocSku} |->
            IF sh = DocCert THEN <<"CERTIFICATION_NUMBER", "PRODUCT_NAME_CERT">>
            ELSE <<"ITEM_CODE", "CERTIFICATION_NUMBER">>],
     start_rows |-> [sh \in {DocCert, DocSku} |-> [header |-> 1, data |-> 2]]]

CertTitle == <<"D","O","C","_","C","E","R","T","_","D","A","T","A","_","T","E","M","P","L","A","T","E">>

SkuTitle == <<"D","O","C","_","S","K","U","_","D","A","T","A","_","T","E","M","P","L","A","T","E">>

CertHeader == <<"CERTIFICATION_NUMBER", "PRODUCT_NAME_CERT", "remark">>

SkuHeader == <<"ITEM_CODE", "CERTIFICATION_NUMBER", "remark">>

Cert1 == <<"C","1">>

\* document workbooks: name and sheets (title, rows; row 1 is the header)
DocA ==
    [name |-> Doc \o <<"_","a">> \o Xlsx,
     sheets |-> <<[title |-> CertTitle,
                   rows |-> <<CertHeader, <<Cert1, <<" ","p">>, NULL>>,
                              <<NULL, <<"q">>, ValX>>>>],
                  [title |-> SkuTitle,
                   rows |-> <<SkuHeader, <<ItemA, Cert1, NULL>>>>]>>]

DocB ==
    [name |-> Doc \o <<"_","b">> \o Xlsx,
     sheets |-> <<[title |-> CertTitle,
                   rows |-> <<CertHeader, <<Cert1, <<"p">>, NULL>>>>],
                  [title |-> SkuTitle,
                   rows |-> <<SkuHeader, <<NULL, <<" ">>, ValX>>>>]>>]

DocC ==
    [name |-> Doc \o <<"_","c">> \o Xlsx,
     sheets |-> <<[title |-> <<"N","o","t","e","s">>,
                   rows |-> <<<<ValX>>>>]>>]

DocD ==
    [name |-> Doc \o <<"_","d">> \o Xlsx,
     sheets |-> <<[title |-> SkuTitle,
                   rows |-> <<SkuHeader, <<ItemB, Cert1, NULL>>>>]>>]

DocFiles == {DocA, DocB, DocC, DocD}

RequestDates == {<<2024, 3, 20, 0, 0, 0>>, <<2024, 4, 30, 0, 0, 0>>}

Labels == {"L1", "L2"}

\* folders of feed files and of document workbooks
PimFolders == {{Avail1, AvailV2}, {Avail1, Avail2}, {Avail1, Texts1}}

DocFolders == {{DocA, DocD}, {DocA, DocB}, {DocC, DocD}}

\* a feed file of the category item_availability with other columns
AvailStock ==
    [name |-> ItemAvailability \o <<"_","s">> \o Stamp2 \o Csv,
     header |-> <<"Product no.", "Stock">>,
     rows |-> <<<<ItemB, ValY>>>>]

\* a feed file without a timestamp in its name
AvailNoDate ==
    [name |-> ItemAvailability \o Csv, header |-> PimHeader,
     rows |-> <<<<ItemB, ValY>>>>]

\* a feed file with a timestamp and no category in its name
AvailNoCategory ==
    [name |-> Stamp1 \o Csv, header |-> PimHeader,
     rows |-> <<<<ItemB, ValY>>>>]

FeedFiles == {Avail1, AvailStock}

FeedFolders == {{Avail1, AvailNoDate}, {Avail2, AvailStock}}

\* file_prefix and get_export_date_from_file of the names above, computed
\* once
FileNames ==
    {f.name : f \in PimFiles \cup HybrisFiles
                        \cup {AvailStock, AvailNoDate, AvailNoCategory}}

PrefixOf == [n \in FileNames |-> file_prefix(n)]

DateOf == [n \in FileNames |-> get_export_date_from_file(n)]

\* sh.title.lower() and normalize_name(sh.title) of the sheets above
SheetTitles ==
    UNION {{f.sheets[i].title : i \in DOMAIN f.sheets} : f \in DocFiles}

LowerOf == [t \in SheetTitles |-> lower(t)]

NormalizedOf == [t \in SheetTitles |-> normalize_name(t)]

(***************************************************************************)
(* Loaders (loaders.py).  A loader's outcome carries                       *)
(*   [tables, labels: the store it leaves, ret: the count it returns (-1   *)
(*    when it raises), added: how many times it executed db_add_label].    *)
(***************************************************************************)
Left(tables, labels, ret, added) ==
    [tables |-> tables, labels |-> labels, ret |-> ret, added |-> added]

\* Python's truth value of a label
Truthy(label) == label # None /\ label # ""

\* header_maps["item_texts"]
item_texts_map ==
    [x \in {"Item.Item no.", "SKU", "Language-specific data.Language",
            "Language-specific data.Item Name",
            "Language-specific data.Item Short Description",
            "Language-specific data.Item Long description"} |->
        CASE x = "Item.Item no." -> "Item no."
          [] x = "SKU" -> "SKU"
          [] x = "Language-specific data.Language" -> "Language"
          [] x = "Language-specific data.Item Name" -> "Item Name"
          [] x = "Language-specific data.Item Short Description" -> "Item Short Description"
          [] x = "Language-specific data.Item Long description" -> "Item Long description"]

\* the part of a load after the table name and the snapshot key are known:
\* drop, create, insert, commit, label
LoadRows(tables, labels, table_name, columns, fields, data, drop_table_first, unique_index_columns, dataset_type, snapshot, label) ==
    LET dropped == IF drop_table_first
                   THEN db_drop_tables(tables, <<table_name>>) ELSE tables
        created == db_create_table(dropped, table_name, fields, unique_index_columns)
    IN  IF created.err THEN Fail(created.kind, Left(created.val, labels, -1, 0))
        ELSE LET ins == executemany(created.val, table_name, columns, data)
             IN  IF ins.err THEN Fail(ins.kind, Left(ins.val, labels, -1, 0))
                 ELSE LET inserted_row_count == ins.val[2]
                      IN  IF Truthy(label) /\ inserted_row_count > 0
                          THEN Ok(Left(ins.val[1],
                                       db_add_label(labels, dataset_type, snapshot, label),
                                       inserted_row_count, 1))
                          ELSE Ok(Left(ins.val[1], labels, inserted_row_count, 0))

\* the header of a feed file as the loader reads it: item_texts headers go
\* through header_maps
pim_header(file, current_file_suffix) ==
    IF current_file_suffix = ItemTexts
    THEN [i \in DOMAIN file.header |-> item_texts_map[file.header[i]]]
    ELSE file.header

\* the rows the feed loader presents: the snapshot key before each data line
pim_data(file, export_date) ==
    [i \in DOMAIN file.rows |-> <<export_date>> \o file.rows[i]]

\* a load_pimfile_to_db that drops the table as soon as it knows its name,
\* before it reads the timestamp
load_pimfile_drop_early(tables, labels, file, drop_table_first, unique_index_columns, label) ==
    IF PrefixOf[file.name].err
    THEN Fail(PrefixOf[file.name].kind, Left(tables, labels, -1, 0))
    ELSE IF DateOf[file.name].err
    THEN Fail(DateOf[file.name].kind,
              Left(IF drop_table_first
                   THEN db_drop_tables(tables, <<PrefixOf[file.name].val>>)
                   ELSE tables, labels, -1, 0))
    ELSE IF /\ PrefixOf[file.name].val = ItemTexts
            /\ \E i \in DOMAIN file.header : file.header[i] \notin DOMAIN item_texts_map
    THEN Fail("KeyError", Left(tables, labels, -1, 0))
    ELSE LoadRows(tables, labels, PrefixOf[file.name].val,
                  <<"export_date">> \o pim_header(file, PrefixOf[file.name].val),
                  <<"id", "export_date">> \o pim_header(file, PrefixOf[file.name].val),
                  pim_data(file, DateOf[file.name].val), drop_table_first,
                  unique_index_columns, "pim", DateOf[file.name].val, label)

load_pimfile_to_db(tables, labels, file, drop_table_first, unique_index_columns, label) ==
    LET current_file_suffix == PrefixOf[file.name]
        export_date == DateOf[file.name]
    IN  IF current_file_suffix.err
        THEN Fail(current_file_suffix.kind, Left(tables, labels, -1, 0))
        ELSE IF export_date.err
        THEN Fail(export_date.kind, Left(tables, labels, -1, 0))
        ELSE IF /\ current_file_suffix.val = ItemTexts
                /\ \E i \in DOMAIN file.header : file.header[i] \notin DOMAIN item_texts_map
        THEN Fail("KeyError", Left(tables, labels, -1, 0))
        ELSE LET header == pim_header(file, current_file_suffix.val)
                 columns == <<"export_date">> \o header
                 fields == <<"id", "export_date">> \o header
             IN  LoadRows(tables, labels, current_file_suffix.val, columns, fields,
                          pim_data(file, export_date.val), drop_table_first,
                          unique_index_columns, "pim", export_date.val, label)

\* the second after dt
NextSecond(dt) ==
    IF dt[6] < 59 THEN [dt EXCEPT ![6] = @ + 1]
    ELSE IF dt[5] < 59 THEN [dt EXCEPT ![6] = 0, ![5] = @ + 1]
    ELSE IF dt[4] < 23 THEN [dt EXCEPT ![6] = 0, ![5] = 0, ![4] = @ + 1]
    ELSE IF dt[3] < DaysInMonth(dt[1], dt[2]) THEN <<dt[1], dt[2], dt[3] + 1, 0, 0, 0>>
    ELSE IF dt[2] < 12 THEN <<dt[1], dt[2] + 1, 1, 0, 0, 0>>
    ELSE <<dt[1] + 1, 1, 1, 0, 0, 0>>

\* a round_seconds that drops the sub-second part
round_seconds_down(precise_datetime) == SubSeq(precise_datetime, 1, 6)

\* precise_datetime is <<year, month, day, hour, minute, second, microsecond>>:
\* add half a second, then drop the microseconds
round_seconds(precise_datetime) ==
    IF precise_datetime[7] + 500000 >= 1000000
    THEN NextSecond(SubSeq(precise_datetime, 1, 6))
    ELSE SubSeq(precise_datetime, 1, 6)

\* str() of a cell inside an f-string
Str(cell) == IF cell = NULL THEN <<"N","o","n","e">> ELSE cell

\* the rows the status loader presents: the snapshot key and the computed
\* "Item no." before each sheet row
hybris_data(file, export_date) ==
    [i \in DOMAIN file.rows |->
        <<export_date, Str(file.rows[i][2]) \o <<"~">> \o Str(file.rows[i][1])>>
            \o file.rows[i]]

load_hybris_excel_to_db(tables, labels, file, drop_table_first, unique_index_columns, label) ==
    LET current_file_suffix == PrefixOf[file.name]
        export_date == round_seconds(file.ctime)
        columns == <<"export_date", "Item no.">> \o file.header
        fields == <<"id", "export_date", "Item no.">> \o file.header
    IN  IF current_file_suffix.err
        THEN Fail(current_file_suffix.kind, Left(tables, labels, -1, 0))
        ELSE LoadRows(tables, labels, current_file_suffix.val, columns, fields,
                      hybris_data(file, export_date), drop_table_first,
                      unique_index_columns, "hybris", export_date, label)

(***************************************************************************)
(* The templated-document loader.  A cell of a sheet is a text, NULL (an   *)
(* empty cell), <<"num", n>> (a number) or <<"datetime", y, m, d, h, m, s>>*)
(***************************************************************************)
IsNum(cell) == Len(cell) = 2 /\ cell[1] = "num"

IsDateTime(cell) == Len(cell) = 7 /\ cell[1] = "datetime"

IsStr(cell) == cell # NULL /\ ~IsNum(cell) /\ ~IsDateTime(cell)

RECURSIVE LStripSpace(_)
LStripSpace(s) == IF s # <<>> /\ Head(s) = " " THEN LStripSpace(Tail(s)) ELSE s

RECURSIVE RStripSpace(_)
RStripSpace(s) ==
    IF s # <<>> /\ s[Len(s)] = " " THEN RStripSpace(SubSeq(s, 1, Len(s) - 1)) ELSE s

\* x.strip() for a text, x.date() for a date-time, x otherwise
CleanCell(cell) ==
    IF IsDateTime(cell) THEN <<"date", cell[2], cell[3], cell[4]>>
    ELSE IF IsStr(cell) THEN RStripSpace(LStripSpace(cell))
    ELSE cell

\* Python's truth value of a converted cell
TruthyCell(cell) ==
    /\ cell # NULL
    /\ cell # <<>>
    /\ ~(IsNum(cell) /\ cell[2] = 0)

Min(a, b) == IF a < b THEN a ELSE b

\* the statement bound to the name sql: none yet, or an insert into a table
NoSql == [bound |-> FALSE, table |-> <<>>, columns |-> <<>>]

\* what the loop over the rows of one sheet reads: p is
\* [rows, table_name, nfields, start_row_header, start_row_data,
\*  request_date, file_name, drop_table_first, unique_index_columns],
\* st is [tables, sql, data, empty_rows]

\* the header row, once its table is dropped and created: sql is bound
HeaderDone(st, p, trimmed_row, created) ==
    IF created.err THEN Fail(created.kind, [st EXCEPT !.tables = created.val])
    ELSE Ok([st EXCEPT !.tables = created.val,
                       !.sql = [bound |-> TRUE, table |-> p.table_name,
                                columns |-> <<"request_date">> \o trimmed_row
                                                \o <<"file_name">>]])

\* if i == start_row_header: ...
HeaderRow(st, p, i, trimmed_row) ==
    IF i # p.start_row_header THEN Ok(st)
    ELSE HeaderDone(st, p, trimmed_row,
            db_create_table(IF p.drop_table_first
                            THEN db_drop_tables(st.tables, <<p.table_name>>)
                            ELSE st.tables,
                            p.table_name,
                            <<"id", "request_date">> \o trimmed_row \o <<"file_name">>,
                            p.unique_index_columns))

\* a row loop that keeps the rows it has to keep and counts no empty row
KeepRowUncounted(st, p, data_row) ==
    IF \E k \in DOMAIN data_row : TruthyCell(data_row[k])
    THEN [st EXCEPT !.data = Append(@, <<p.request_date>> \o data_row
                                        \o <<p.file_name>>)]
    ELSE st

\* a converted row at or after start_row_data: kept, or counted as empty
KeepRow(st, p, data_row) ==
    IF \E k \in DOMAIN data_row : TruthyCell(data_row[k])
    THEN [st EXCEPT !.data = Append(@, <<p.request_date>> \o data_row
                                        \o <<p.file_name>>)]
    ELSE [st EXCEPT !.empty_rows = @ + 1]

\* if i >= start_row_data: ...
DataRow(st, p, i, trimmed_row) ==
    IF i < p.start_row_data THEN st
    ELSE KeepRow(st, p, [k \in DOMAIN trimmed_row |-> CleanCell(trimmed_row[k])])

\* the data part of row i, unless its header part raised
AfterHeader(h, p, i, trimmed_row) ==
    IF h.err THEN h ELSE Ok(DataRow(h.val, p, i, trimmed_row))

\* row i of the sheet
Row(st, p, i, trimmed_row) ==
    AfterHeader(HeaderRow(st, p, i, trimmed_row), p, i, trimmed_row)

\* the row loop of one sheet from row i on
RECURSIVE ScanRows(_, _, _)
RECURSIVE NextRow(_, _, _)
ScanRows(st, p, i) ==
    IF i > Len(p.rows) THEN Ok(st)
    ELSE NextRow(Row(st, p, i, SubSeq(p.rows[i], 1, Min(Len(p.rows[i]), p.nfields))),
                 p, i)

\* if empty_rows >= 3: break
NextRow(r, p, i) ==
    IF r.err THEN r
    ELSE IF r.val.empty_rows >= 3 THEN r
    ELSE ScanRows(r.val, p, i + 1)

\* what the row loop of sheet sh reads
SheetParams(sh, title, file, a) ==
    [rows |-> sh.rows,
     table_name |-> NormalizedOf[sh.title],
     nfields |-> Len(a.config.sheet_headers[title]),
     start_row_header |-> a.config.start_rows[title].header,
     start_row_data |-> a.config.start_rows[title].data,
     request_date |-> a.request_date,
     file_name |-> file.name,
     drop_table_first |-> a.drop_table_first,
     unique_index_columns |-> a.unique_index_columns]

\* the sheet loop from sheet n on; acc is [tables, sql, total, inserted],
\* inserted -1 while inserted_row_count is not yet bound
RECURSIVE ScanSheets(_, _, _, _)
RECURSIVE Scanned(_, _, _, _, _)
RECURSIVE Inserted(_, _, _, _, _, _)
ScanSheets(acc, file, a, n) ==
    IF n > Len(file.sheets) THEN Ok(acc)
    ELSE IF LowerOf[file.sheets[n].title] \notin Range(a.config.file_sheets[a.prefix])
    THEN ScanSheets(acc, file, a, n + 1)
    ELSE IF LowerOf[file.sheets[n].title] \notin DOMAIN a.config.sheet_headers
    THEN Fail("KeyError", acc)
    ELSE Scanned(acc, file, a, n,
                 ScanRows([tables |-> acc.tables, sql |-> acc.sql,
                           data |-> <<>>, empty_rows |-> 0],
                          SheetParams(file.sheets[n], LowerOf[file.sheets[n].title],
                                      file, a),
                          1))

\* cursor.executemany(sql, data) after the row loop
Scanned(acc, file, a, n, scan) ==
    IF scan.err THEN Fail(scan.kind, [acc EXCEPT !.tables = scan.val.tables])
    ELSE IF ~scan.val.sql.bound
    THEN Fail("UnboundLocalError", [acc EXCEPT !.tables = scan.val.tables])
    ELSE Inserted(acc, file, a, n, scan.val.sql,
                  executemany(scan.val.tables, scan.val.sql.table,
                              scan.val.sql.columns, scan.val.data))

\* the counts after executemany, and on to the next sheet
Inserted(acc, file, a, n, sql, ins) ==
    IF ins.err THEN Fail(ins.kind, [acc EXCEPT !.tables = ins.val])
    ELSE ScanSheets([tables |-> ins.val[1], sql |-> sql,
                     total |-> acc.total + ins.val[2],
                     inserted |-> ins.val[2]], file, a, n + 1)

\* the label step after the sheet loop, and the return
DocLabel(loop, labels, request_date, label) ==
    IF loop.err THEN Fail(loop.kind, Left(loop.val.tables, labels, -1, 0))
    ELSE IF ~Truthy(label)
    THEN Ok(Left(loop.val.tables, labels, loop.val.total, 0))
    ELSE IF loop.val.inserted = -1
    THEN Fail("UnboundLocalError", Left(loop.val.tables, labels, -1, 0))
    ELSE IF loop.val.inserted > 0
    THEN Ok(Left(loop.val.tables,
                 db_add_label(labels, "doc", request_date, label),
                 loop.val.total, 1))
    ELSE Ok(Left(loop.val.tables, labels, loop.val.total, 0))

load_docfile_into_db(tables, labels, file, prefix, request_date, config, drop_table_first, unique_index_columns, label) ==
    IF prefix \notin DOMAIN config.file_sheets
    THEN Fail("KeyError", Left(tables, labels, -1, 0))
    ELSE DocLabel(ScanSheets([tables |-> tables, sql |-> NoSql, total |-> 0,
                              inserted |-> -1], file,
                             [prefix |-> prefix, request_date |-> request_date,
                              config |-> config,
                              drop_table_first |-> drop_table_first,
                              unique_index_columns |-> unique_index_columns], 1),
                  labels, request_date, label)

(***************************************************************************)
(* The snapshot listings (db.py).  A listing is a sequence of records      *)
(* [date, count, label], a document listing adds sheet and file.           *)
(***************************************************************************)
\* the tables db_get_doc_datasets reads, with the column each one counts
doc_tables ==
    << <<DocCert, "CERTIFICATION_NUMBER">>, <<DocSku, "ITEM_CODE">>,
       <<SkuList, "Item No.">>, <<PimSkuLoad, "Item No.">> >>

\* the elements of a set of timestamps in ascending order
RECURSIVE SortDates(_)
SortDates(ds) ==
    IF ds = {} THEN <<>>
    ELSE LET m == CHOOSE d \in ds : \A e \in ds : ~DateLess(e, d)
         IN  <<m>> \o SortDates(ds \ {m})

Reverse(s) == [i \in DOMAIN s |-> s[Len(s) + 1 - i]]

\* the snapshot keys of a table, as ORDER BY ... ASC / DESC leaves them
GroupKeys(t, date_column, descending) ==
    LET asc == SortDates({t.rows[i][date_column] : i \in DOMAIN t.rows})
    IN  IF descending THEN Reverse(asc) ELSE asc

\* count("<counts_column>") within the group of snapshot key d: the rows
\* where the column is not NULL; all rows when the table has no such
\* column (the quoted name is then a string literal)
GroupCount(t, date_column, counts_column, d) ==
    Cardinality({i \in DOMAIN t.rows :
        /\ t.rows[i][date_column] = d
        /\ counts_column \in Range(t.cols) => t.rows[i][counts_column] # NULL})

\* the label the LEFT JOIN finds for snapshot key d, None without a match
JoinedLabel(lt, d) ==
    IF \E i \in DOMAIN lt.rows : lt.rows[i].date = d
    THEN lt.rows[CHOOSE i \in DOMAIN lt.rows : lt.rows[i].date = d].label
    ELSE None

\* the query of db_get_pim_datasets / db_get_hybris_datasets on table_name
Datasets(tables, lt, table_name, descending) ==
    IF ~db_table_exists(tables, table_name) THEN Raise("OperationalError")
    ELSE IF ~lt.exists THEN Raise("OperationalError")
    ELSE IF "export_date" \notin Range(tables[table_name].cols)
    THEN Raise("OperationalError")
    ELSE LET t == tables[table_name]
             keys == GroupKeys(t, "export_date", descending)
         IN  Ok([k \in DOMAIN keys |->
                    [date |-> keys[k],
                     count |-> GroupCount(t, "export_date", "Item no.", keys[k]),
                     label |-> JoinedLabel(lt, keys[k])]])

db_get_pim_datasets(tables, labels, descending) ==
    Datasets(tables, labels["pim"], ItemAvailability, descending)

db_get_hybris_datasets(tables, labels, descending) ==
    IF ~db_table_exists(tables, SkusStatus) THEN Ok(<<>>)
    ELSE Datasets(tables, labels["hybris"], SkusStatus, descending)

\* the listings one document table can yield: "file_name" is a bare column
\* of a grouped query, so each group shows the file name of any of its rows
RECURSIVE DocGroups(_, _, _, _, _)
DocGroups(t, lt, table_name, counts_column, keys) ==
    IF keys = <<>> THEN {<<>>}
    ELSE LET d == Head(keys)
             names == {t.rows[i]["file_name"] :
                          i \in {j \in DOMAIN t.rows : t.rows[j]["request_date"] = d}}
         IN  {<<[date |-> d,
                 count |-> GroupCount(t, "request_date", counts_column, d),
                 sheet |-> table_name, file |-> f,
                 label |-> JoinedLabel(lt, d)]>> \o rest :
                 f \in names,
                 rest \in DocGroups(t, lt, table_name, counts_column, Tail(keys))}

\* db_get_doc_datasets from table number n of doc_tables on: the outcomes
\* it can have, each Ok(listing) or a raise
RECURSIVE DocDatasetsFrom(_, _, _, _)
DocDatasetsFrom(tables, lt, descending, n) ==
    IF n > Len(doc_tables) THEN {Ok(<<>>)}
    ELSE LET table_name == doc_tables[n][1]
             rest == DocDatasetsFrom(tables, lt, descending, n + 1)
         IN  IF ~db_table_exists(tables, table_name) THEN rest
             ELSE IF \/ ~lt.exists
                     \/ "request_date" \notin Range(tables[table_name].cols)
                     \/ "file_name" \notin Range(tables[table_name].cols)
             THEN {Raise("OperationalError")}
             ELSE LET t == tables[table_name]
                      here == DocGroups(t, lt, table_name, doc_tables[n][2],
                                        GroupKeys(t, "request_date", descending))
                  IN  {IF r.err THEN r ELSE Ok(h \o r.val) : h \in here, r \in rest}

db_get_doc_datasets(tables, labels, descending) ==
    DocDatasetsFrom(tables, labels["doc"], descending, 1)

\* unique-key columns without the snapshot key
index_columns_no_snapshot(current_file_suffix) ==
    IF current_file_suffix = ItemAvailability THEN <<"Item no.">> ELSE <<>>

\* the unique-key columns load_pim_data passes for a category
index_columns(current_file_suffix) ==
    IF current_file_suffix = ItemAvailability THEN <<"export_date", "Item no.">>
    ELSE IF current_file_suffix = <<"i","t","e","m","_","c","l","a","s","s","i","f","i","c","a","t","i","o","n">>
    THEN <<"export_date", "Item no.", "Structure.Identifier",
           "Structure group.Structure group identifier">>
    ELSE IF current_file_suffix = <<"i","t","e","m","_","p","r","i","c","i","n","g">>
    THEN <<"export_date", "Item no.", "Condition record no.">>
    ELSE IF current_file_suffix = <<"p","r","o","d","u","c","t","_","a","v","a","i","l","a","b","i","l","i","t","y">>
    THEN <<"export_date", "Product no.">>
    ELSE IF current_file_suffix = <<"p","r","o","d","u","c","t","_","c","l","a","s","s","i","f","i","c","a","t","i","o","n">>
    THEN <<"export_date", "Product no.", "Structure.Identifier",
           "Structure group.Structure group identifier">>
    ELSE <<>>

(***************************************************************************)
(* The commands of main.py that load a folder or a file.  A command's      *)
(* outcome carries the store it leaves, the sum of the counts it printed,  *)
(* how many times db_add_label was executed and how many loader calls it   *)
(* made.                                                                   *)
(***************************************************************************)
Done(tables, labels, ret, added, calls) ==
    [tables |-> tables, labels |-> labels, ret |-> ret, added |-> added,
     calls |-> calls]

\* the file loop of load_pim_data from file n on; st is
\* [tables, labels, label, label_set, ret, added]
RECURSIVE PimDataFrom(_, _, _, _)
PimDataFrom(st, files, drop_tables, n) ==
    IF n > Len(files) THEN Ok(Done(st.tables, st.labels, st.ret, st.added, n - 1))
    ELSE
    LET file == files[n]
        export_date == DateOf[file.name]
        current_file_suffix == PrefixOf[file.name]
    IN  IF export_date.err
        THEN Fail(export_date.kind, Done(st.tables, st.labels, -1, st.added, n - 1))
        ELSE IF current_file_suffix.err
        THEN Fail(current_file_suffix.kind,
                  Done(st.tables, st.labels, -1, st.added, n - 1))
        ELSE
        LET existing_label == db_get_label_for_date(st.labels, "pim", export_date.val)
            label == IF st.label_set THEN None
                     ELSE IF existing_label = st.label THEN None
                     ELSE st.label
            out == load_pimfile_to_db(st.tables, st.labels, file, drop_tables,
                                      index_columns(current_file_suffix.val), label)
        IN  IF out.err
            THEN Fail(out.kind, Done(out.val.tables, out.val.labels, -1,
                                     st.added + out.val.added, n))
            ELSE PimDataFrom([tables |-> out.val.tables, labels |-> out.val.labels,
                              label |-> label, label_set |-> TRUE,
                              ret |-> st.ret + out.val.ret,
                              added |-> st.added + out.val.added],
                             files, drop_tables, n + 1)

\* a load_pim_data that, when a file fails, restores the store it started
\* from
load_pim_data_rollback(tables, labels, files, label, drop_tables) ==
    LET out == PimDataFrom([tables |-> tables,
                            labels |-> db_create_label_tables(labels),
                            label |-> label, label_set |-> FALSE, ret |-> 0,
                            added |-> 0],
                           files, drop_tables, 1)
    IN  IF out.err
        THEN [out EXCEPT !.val = Done(tables, labels, -1, 0, out.val.calls)]
        ELSE out

\* files: the *.csv files of input_folder in the order glob yields them
load_pim_data(tables, labels, files, label, drop_tables) ==
    PimDataFrom([tables |-> tables, labels |-> db_create_label_tables(labels),
                 label |-> label, label_set |-> FALSE, ret |-> 0, added |-> 0],
                files, drop_tables, 1)

StartsWith(s, prefix) ==
    Len(prefix) <= Len(s) /\ SubSeq(s, 1, Len(prefix)) = prefix

\* the name current_file_prefix before its first assignment
Unbound == [bound |-> FALSE, val |-> <<>>]

\* the file loop of load_doc_data from file n on; st is
\* [tables, labels, label, label_set, current_file_prefix, ret, added]
RECURSIVE DocDataFrom(_, _, _, _, _, _)
DocDataFrom(st, files, request_date, config, drop_tables, n) ==
    IF n > Len(files) THEN Ok(Done(st.tables, st.labels, st.ret, st.added, n - 1))
    ELSE
    LET file == files[n]
        prefixes == config.file_prefixes
        matches == {k \in DOMAIN prefixes : StartsWith(lower(file.name), prefixes[k])}
        current_file_prefix ==
            IF matches = {} THEN st.current_file_prefix
            ELSE [bound |-> TRUE,
                  val |-> prefixes[CHOOSE k \in matches : \A j \in matches : k <= j]]
    IN  IF ~current_file_prefix.bound
        THEN Fail("UnboundLocalError", Done(st.tables, st.labels, -1, st.added, n - 1))
        ELSE
        LET labels1 == IF st.label_set THEN st.labels
                       ELSE db_create_label_tables(st.labels)
            existing_label == db_get_label_for_date(labels1, "doc", request_date)
            label == IF ~st.label_set /\ existing_label = st.label THEN None
                     ELSE st.label
            out == load_docfile_into_db(st.tables, labels1, file,
                                        current_file_prefix.val, request_date, config,
                                        drop_tables, <<>>, label)
        IN  IF out.err
            THEN Fail(out.kind, Done(out.val.tables, out.val.labels, -1,
                                     st.added + out.val.added, n))
            ELSE DocDataFrom([tables |-> out.val.tables, labels |-> out.val.labels,
                              label |-> label, label_set |-> TRUE,
                              current_file_prefix |-> current_file_prefix,
                              ret |-> st.ret + out.val.ret,
                              added |-> st.added + out.val.added],
                             files, request_date, config, drop_tables, n + 1)

\* files: the *.xlsx files of input_folder in the order glob yields them
load_doc_data(tables, labels, files, request_date, config, label, drop_tables) ==
    DocDataFrom([tables |-> tables, labels |-> labels, label |-> label,
                 label_set |-> FALSE, current_file_prefix |-> Unbound,
                 ret |-> 0, added |-> 0],
                files, request_date, config, drop_tables, 1)

load_hybris_data(tables, labels, hybris_file, label, drop_tables) ==
    LET created == db_create_label_tables(labels)
        export_date == round_seconds(hybris_file.ctime)
        existing_label == db_get_label_for_date(created, "hybris", export_date)
        out == load_hybris_excel_to_db(tables, created, hybris_file, drop_tables,
                                       <<"export_date", "Item no.">>,
                                       IF existing_label # label THEN label ELSE None)
    IN  [out EXCEPT !.val = Done(out.val.tables, out.val.labels, out.val.ret,
                                 out.val.added, 1)]

\* the orders in which glob can yield the files of a folder
Orders(folder) ==
    {files \in [1..Cardinality(folder) -> folder] :
        \A i, j \in DOMAIN files : i # j => files[i] # files[j]}

\* the number of calls in one behaviour
MaxOps == 2

(***************************************************************************)
(* State                                                                   *)
(***************************************************************************)
VARIABLES
    tables,   \* the data tables of the database
    labels,   \* the label tables of the database
    pre,      \* the store before the last call
    last,     \* the last call: its arguments and its outcome
    prev,     \* the call before the last one, and the store before it
    passed,   \* <<table, unique-key columns>> of every feed and status load so far
    nops      \* calls made so far

vars == <<tables, labels, pre, last, prev, passed, nops>>

Init ==
    /\ tables = EmptyStore.tables
    /\ labels = EmptyStore.labels
    /\ pre = EmptyStore
    /\ last = [op |-> "none"]
    /\ prev = [call |-> [op |-> "none"], pre |-> EmptyStore]
    /\ passed = {}
    /\ nops = 0

\* what every call leaves behind it
Called ==
    /\ pre' = [tables |-> tables, labels |-> labels]
    /\ prev' = [call |-> last, pre |-> pre]
    /\ nops' = nops + 1

\* the store after a loader's or a command's outcome
Leave(out) ==
    /\ Called
    /\ tables' = out.val.tables
    /\ labels' = out.val.labels

\* the <<table, key>> pairs of the first n loads of a feed folder
PassedBy(files, n) ==
    {<<PrefixOf[files[i].name].val, index_columns(PrefixOf[files[i].name].val)>> :
        i \in 1..n}

\* a direct call of load_pimfile_to_db
LoadPimFile ==
    /\ nops < MaxOps
    /\ \E file \in PimFiles, drop_table_first \in BOOLEAN, label \in {None, "L1"} :
           \E key \in {<<>>, index_columns(PrefixOf[file.name].val)} :
               \E out \in {load_pimfile_to_db(tables, labels, file, drop_table_first,
                                               key, label)} :
                   /\ Leave(out)
                   /\ passed' = passed \cup {<<PrefixOf[file.name].val, key>>}
                   /\ last' = [op |-> "load_pimfile_to_db", file |-> file,
                               drop |-> drop_table_first, key |-> key, label |-> label,
                               err |-> out.err, kind |-> out.kind,
                               ret |-> out.val.ret, added |-> out.val.added]

\* a direct call of load_hybris_excel_to_db
LoadHybrisFile ==
    /\ nops < MaxOps
    /\ \E file \in HybrisFiles, drop_table_first \in BOOLEAN, label \in {None, "L1"},
          key \in {<<>>, <<"export_date", "Item no.">>} :
           \E out \in {load_hybris_excel_to_db(tables, labels, file, drop_table_first,
                                                key, label)} :
               /\ Leave(out)
               /\ passed' = passed \cup {<<PrefixOf[file.name].val, key>>}
               /\ last' = [op |-> "load_hybris_excel_to_db", file |-> file,
                           drop |-> drop_table_first, key |-> key, label |-> label,
                           err |-> out.err, kind |-> out.kind,
                           ret |-> out.val.ret, added |-> out.val.added]

\* a direct call of load_docfile_into_db
LoadDocFile ==
    /\ nops < MaxOps
    /\ \E file \in DocFiles, request_date \in RequestDates,
          drop_table_first \in BOOLEAN, label \in {None, "L1"},
          key \in {<<>>, <<"request_date", "CERTIFICATION_NUMBER">>} :
           \E out \in {load_docfile_into_db(tables, labels, file, Doc, request_date,
                                             DocConfig, drop_table_first, key, label)} :
               /\ Leave(out)
               /\ UNCHANGED passed
               /\ last' = [op |-> "load_docfile_into_db", file |-> file,
                           date |-> request_date,
                           drop |-> drop_table_first, key |-> key, label |-> label,
                           err |-> out.err, kind |-> out.kind,
                           ret |-> out.val.ret, added |-> out.val.added]

\* the load-pim command on a folder
LoadPimData ==
    /\ nops < MaxOps
    /\ \E folder \in PimFolders, drop_tables \in BOOLEAN, label \in {None, "L1"} :
           \E files \in Orders(folder) :
               \E out \in {load_pim_data(tables, labels, files, label, drop_tables)} :
                   /\ Leave(out)
                   /\ passed' = passed \cup PassedBy(files, out.val.calls)
                   /\ last' = [op |-> "load_pim_data", files |-> files,
                               drop |-> drop_tables, label |-> label,
                               err |-> out.err, kind |-> out.kind,
                               ret |-> out.val.ret, added |-> out.val.added]

\* the load-doc command on a folder
LoadDocData ==
    /\ nops < MaxOps
    /\ \E folder \in DocFolders, request_date \in RequestDates,
          drop_tables \in BOOLEAN, label \in {None, "L1"} :
           \E files \in Orders(folder) :
               \E out \in {load_doc_data(tables, labels, files, request_date, DocConfig,
                                         label, drop_tables)} :
                   /\ Leave(out)
                   /\ UNCHANGED passed
                   /\ last' = [op |-> "load_doc_data", files |-> files,
                               date |-> request_date,
                               drop |-> drop_tables, label |-> label,
                               err |-> out.err, kind |-> out.kind,
                               ret |-> out.val.ret, added |-> out.val.added]

\* the load-hybris command on a workbook
LoadHybrisData ==
    /\ nops < MaxOps
    /\ \E hybris_file \in HybrisFiles, drop_tables \in BOOLEAN, label \in {None, "L1"} :
           \E out \in {load_hybris_data(tables, labels, hybris_file, label, drop_tables)} :
               /\ Leave(out)
               /\ passed' = passed \cup {<<PrefixOf[hybris_file.name].val,
                                           <<"export_date", "Item no.">>>>}
               /\ last' = [op |-> "load_hybris_data", file |-> hybris_file,
                           drop |-> drop_tables, label |-> label,
                           err |-> out.err, kind |-> out.kind,
                           ret |-> out.val.ret, added |-> out.val.added]

\* db_add_label called on its own
AddLabel ==
    /\ nops < MaxOps
    /\ \E dataset_type \in DatasetTypes, label \in Labels :
           \E dataset_datetime \in IF dataset_type = "doc" THEN RequestDates
                                   ELSE {Date1, Date2} :
               /\ Called
               /\ labels' = db_add_label(labels, dataset_type, dataset_datetime, label)
               /\ last' = [op |-> "db_add_label", type |-> dataset_type,
                           date |-> dataset_datetime, label |-> label]
               /\ UNCHANGED <<tables, passed>>

\* a call of db_get_pim_datasets, db_get_hybris_datasets or db_get_doc_datasets
ListSnapshots ==
    /\ nops < MaxOps
    /\ \E dataset_type \in DatasetTypes, descending \in BOOLEAN :
           \E out \in IF dataset_type = "pim"
                      THEN {db_get_pim_datasets(tables, labels, descending)}
                      ELSE IF dataset_type = "hybris"
                      THEN {db_get_hybris_datasets(tables, labels, descending)}
                      ELSE db_get_doc_datasets(tables, labels, descending) :
               /\ Called
               /\ last' = [op |-> "list", type |-> dataset_type,
                           descending |-> descending,
                           err |-> out.err, kind |-> out.kind, val |-> out.val]
               /\ UNCHANGED <<tables, labels, passed>>

Next ==
    \/ LoadPimFile
    \/ LoadHybrisFile
    \/ LoadDocFile
    \/ LoadPimData
    \/ LoadDocData
    \/ LoadHybrisData
    \/ AddLabel
    \/ ListSnapshots

Spec == Init /\ [][Next]_vars

(***************************************************************************)
(* The document reader, load_doc_data and db_get_doc_datasets on their own *)
(***************************************************************************)
Cert2 == <<"C","2">>

\* a blank row of a certificate sheet: an empty cell, a cell of spaces and a
\* stray third column
BlankRow == <<NULL, <<" ">>, ValX>>

\* a certificate sheet with three blank rows in a row before its last row
DocE ==
    [name |-> Doc \o <<"_","e">> \o Xlsx,
     sheets |-> <<[title |-> CertTitle,
                   rows |-> <<CertHeader, <<Cert1, <<"p">>, NULL>>,
                              BlankRow, BlankRow, BlankRow,
                              <<Cert2, <<"r">>, NULL>>>>]>>]

\* a certificate sheet with three blank rows, never three in a row
DocF ==
    [name |-> Doc \o <<"_","f">> \o Xlsx,
     sheets |-> <<[title |-> CertTitle,
                   rows |-> <<CertHeader, BlankRow, BlankRow,
                              <<Cert1, <<"p">>, NULL>>, BlankRow,
                              <<Cert2, <<"r">>, NULL>>>>]>>]

\* a workbook whose name starts with none of the configured prefixes
DocOther ==
    [name |-> <<"o","t","h","e","r","_","x">> \o Xlsx,
     sheets |-> <<[title |-> SkuTitle,
                   rows |-> <<SkuHeader, <<ItemB, Cert2, NULL>>>>]>>]

ReaderFiles == {DocA, DocD, DocE, DocF}

ReaderFolders == {{DocD, DocOther}}

\* the number of calls in one behaviour of the document reader
MaxDocOps == 3

\* load_docfile_into_db as load_doc_data calls it: no drop, no key columns
ReadDoc ==
    /\ nops < MaxDocOps
    /\ \E file \in ReaderFiles, request_date \in RequestDates, label \in {None, "L1"} :
           \E out \in {load_docfile_into_db(tables, labels, file, Doc, request_date,
                                             DocConfig, FALSE, <<>>, label)} :
               /\ Leave(out)
               /\ UNCHANGED passed
               /\ last' = [op |-> "load_docfile_into_db", file |-> file,
                           date |-> request_date,
                           drop |-> FALSE, key |-> <<>>, label |-> label,
                           err |-> out.err, kind |-> out.kind,
                           ret |-> out.val.ret, added |-> out.val.added]

\* load_doc_data on a folder that holds a workbook of another name
ReadDocFolder ==
    /\ nops < MaxDocOps
    /\ \E folder \in ReaderFolders, request_date \in RequestDates,
          label \in {None, "L1"} :
           \E files \in Orders(folder) :
               \E out \in {load_doc_data(tables, labels, files, request_date, DocConfig,
                                         label, FALSE)} :
                   /\ Leave(out)
                   /\ UNCHANGED passed
                   /\ last' = [op |-> "load_doc_data", files |-> files,
                               date |-> request_date,
                               drop |-> FALSE, label |-> label,
                               err |-> out.err, kind |-> out.kind,
                               ret |-> out.val.ret, added |-> out.val.added]

\* db_get_doc_datasets
ListDoc ==
    /\ nops < MaxDocOps
    /\ \E descending \in BOOLEAN :
           \E out \in db_get_doc_datasets(tables, labels, descending) :
               /\ Called
               /\ last' = [op |-> "list", type |-> "doc",
                           descending |-> descending,
                           err |-> out.err, kind |-> out.kind, val |-> out.val]
               /\ UNCHANGED <<tables, labels, passed>>

NextDoc ==
    \/ ReadDoc
    \/ ReadDocFolder
    \/ ListDoc

SpecDoc == Init /\ [][NextDoc]_vars

(***************************************************************************)
(* The feed loader, load_pim_data and db_create_table on their own         *)
(***************************************************************************)
\* the number of calls in one behaviour of the feed loader
MaxFeedOps == 3

\* the key lists db_create_table is called with
KeyLists == {<<>>, <<"export_date">>, <<"export_date", "Item no.">>}

\* the <<table, key>> pairs of the loads of a feed folder whose name could
\* be read
PassedByRead(files, n) ==
    {<<PrefixOf[files[i].name].val, index_columns(PrefixOf[files[i].name].val)>> :
        i \in {j \in 1..n : ~PrefixOf[files[j].name].err}}

\* load_pimfile_to_db on a file of the category item_availability
FeedFile ==
    /\ nops < MaxFeedOps
    /\ \E file \in FeedFiles, drop_table_first \in BOOLEAN :
           \E key \in {<<>>, index_columns(PrefixOf[file.name].val)} :
               \E out \in {load_pimfile_to_db(tables, labels, file, drop_table_first,
                                               key, None)} :
                   /\ Leave(out)
                   /\ passed' = passed \cup {<<PrefixOf[file.name].val, key>>}
                   /\ last' = [op |-> "load_pimfile_to_db", file |-> file,
                               drop |-> drop_table_first, key |-> key, label |-> None,
                               err |-> out.err, kind |-> out.kind,
                               ret |-> out.val.ret, added |-> out.val.added]

\* load_pimfile_to_db on a file whose name lacks the timestamp or the
\* category
FeedBadName ==
    /\ nops < MaxFeedOps
    /\ \E file \in {AvailNoDate, AvailNoCategory}, drop_table_first \in BOOLEAN,
          key \in KeyLists, label \in {None, "L1"} :
           \E out \in {load_pimfile_to_db(tables, labels, file, drop_table_first,
                                           key, label)} :
               /\ Leave(out)
               /\ UNCHANGED passed
               /\ last' = [op |-> "load_pimfile_to_db", file |-> file,
                           drop |-> drop_table_first, key |-> key, label |-> label,
                           err |-> out.err, kind |-> out.kind,
                           ret |-> out.val.ret, added |-> out.val.added]

\* load_pim_data on a folder
FeedFolder ==
    /\ nops < MaxFeedOps
    /\ \E folder \in FeedFolders, drop_tables \in BOOLEAN, label \in {None, "L1"} :
           \E files \in Orders(folder) :
               \E out \in {load_pim_data(tables, labels, files, label, drop_tables)} :
                   /\ Leave(out)
                   /\ passed' = passed \cup PassedByRead(files, out.val.calls)
                   /\ last' = [op |-> "load_pim_data", files |-> files,
                               drop |-> drop_tables, label |-> label,
                               err |-> out.err, kind |-> out.kind,
                               ret |-> out.val.ret, added |-> out.val.added]

\* db_create_table on the table item_availability
CreateTable ==
    /\ nops < MaxFeedOps
    /\ \E key \in KeyLists :
           \E out \in {db_create_table(tables, ItemAvailability,
                                       <<"id", "export_date">> \o PimHeader, key)} :
               /\ Called
               /\ tables' = out.val
               /\ last' = [op |-> "db_create_table", table |-> ItemAvailability,
                           key |-> key, err |-> out.err, kind |-> out.kind]
               /\ UNCHANGED <<labels, passed>>

NextFeed ==
    \/ FeedFile
    \/ FeedBadName
    \/ FeedFolder
    \/ CreateTable

SpecFeed == Init /\ [][NextFeed]_vars

(***************************************************************************)
(* The list command over what the loaders stored                           *)
(***************************************************************************)
\* what list_data leaves and shows: the label tables and the three listings
Shown(lt, pim, hybris, doc) ==
    [labels |-> lt, pim |-> pim, hybris |-> hybris, doc |-> doc]

\* the three queries of list_data, each called without "descending"
ListedFrom(conn, lt, pim, hybris) ==
    IF pim.err THEN {Fail(pim.kind, Shown(lt, <<>>, <<>>, <<>>))}
    ELSE IF hybris.err THEN {Fail(hybris.kind, Shown(lt, <<>>, <<>>, <<>>))}
    ELSE {IF doc.err THEN Fail(doc.kind, Shown(lt, <<>>, <<>>, <<>>))
          ELSE Ok(Shown(lt, pim.val, hybris.val, doc.val)) :
             doc \in db_get_doc_datasets(conn, lt, FALSE)}

\* list_data(args): descending is args.descending, which list_data never
\* reads
list_data(conn, lbls, descending) ==
    ListedFrom(conn, db_create_label_tables(lbls),
               db_get_pim_datasets(conn, db_create_label_tables(lbls), FALSE),
               db_get_hybris_datasets(conn, db_create_label_tables(lbls), FALSE))

\* the list command, with or without --descending
ListData ==
    /\ nops < MaxOps
    /\ \E descending \in BOOLEAN :
           \E out \in list_data(tables, labels, descending) :
               /\ Called
               /\ labels' = out.val.labels
               /\ last' = [op |-> "list_data", descending |-> descending,
                           err |-> out.err, kind |-> out.kind,
                           pim |-> out.val.pim, hybris |-> out.val.hybris,
                           doc |-> out.val.doc]
               /\ UNCHANGED <<tables, passed>>

NextList ==
    \/ LoadPimData
    \/ LoadHybrisFile
    \/ LoadDocData
    \/ ListData

SpecList == Init /\ [][NextList]_vars

(***************************************************************************)
(* The functions of db.py that read names and round times, on their own    *)
(***************************************************************************)
\* the longest name file_prefix and normalize_name are called with
MaxLen == 4

\* the longest file name, in pieces, get_export_date_from_file is called
\* with
MaxPieces == 5

NameChars == {"a", "B", "1", "_", "-", "."}

\* every name of at most MaxLen characters
Names == UNION {[1..n -> NameChars] : n \in 0..MaxLen}

\* the pieces of a file name with a timestamp: two 12-digit stamps, digits
\* that lengthen a stamp, the separator and the extension
NamePieces ==
    {<<"_">>, <<"2","0">>, <<"5">>, <<".","c","s","v">>,
     <<"2","4","0","4","1","1","0","9","0","8","1","1">>,
     <<"2","4","0","4","1","2","0","9","0","8","1","1">>}

RECURSIVE Concat(_)
Concat(pieces) ==
    IF pieces = <<>> THEN <<>> ELSE Head(pieces) \o Concat(Tail(pieces))

\* every file name of at most MaxPieces pieces
StampedNames ==
    {Concat(ps) : ps \in UNION {[1..n -> NamePieces] : n \in 0..MaxPieces}}

\* timestamps with microseconds, as file_path.stat().st_ctime gives them
PreciseTimes ==
    {d \o t \o <<f>> :
        d \in {<<2023, 2, 28>>, <<2024, 2, 28>>, <<2024, 2, 29>>,
               <<2024, 4, 11>>, <<2024, 4, 30>>, <<2024, 12, 31>>},
        t \in {<<9, 8, 11>>, <<9, 8, 59>>, <<9, 59, 59>>, <<23, 59, 59>>},
        f \in {0, 299999, 499999, 500000, 700000, 999999}}

\* what a call leaves behind it: its argument and what it returned or raised
Applied(op, arg, out) == [op |-> op, arg |-> arg, out |-> out]

CallFilePrefix ==
    /\ last.op = "none"
    /\ \E name \in Names :
           last' = Applied("file_prefix", name, file_prefix(name))
    /\ Called
    /\ UNCHANGED <<tables, labels, passed>>

CallNormalizeName ==
    /\ last.op = "none"
    /\ \E name \in Names :
           last' = Applied("normalize_name", name, normalize_name(name))
    /\ Called
    /\ UNCHANGED <<tables, labels, passed>>

CallGetExportDate ==
    /\ last.op = "none"
    /\ \E name \in StampedNames :
           last' = Applied("get_export_date_from_file", name,
                           get_export_date_from_file(name))
    /\ Called
    /\ UNCHANGED <<tables, labels, passed>>

CallRoundSeconds ==
    /\ last.op = "none"
    /\ \E t \in PreciseTimes :
           last' = Applied("round_seconds", t, round_seconds(t))
    /\ Called
    /\ UNCHANGED <<tables, labels, passed>>

NextPure ==
    \/ CallFilePrefix
    \/ CallNormalizeName
    \/ CallGetExportDate
    \/ CallRoundSeconds

SpecPure == Init /\ [][NextPure]_vars

(***************************************************************************)
(* Properties                                                              *)
(***************************************************************************)
Loaders == {"load_pimfile_to_db", "load_hybris_excel_to_db", "load_docfile_into_db"}

RowsOf(ts, table_name) ==
    IF table_name \in DOMAIN ts THEN ts[table_name].rows ELSE <<>>

\* the table a feed or status load writes to
TableOf(call) == PrefixOf[call.file.name].val

\* the snapshot key a feed or status load stamps on its rows
SnapshotOf(call) ==
    IF call.op = "load_pimfile_to_db" THEN DateOf[call.file.name].val
    ELSE round_seconds(call.file.ctime)

\* a row as column -> value
AsRow(columns, values) == [c \in Range(columns) |-> values[Index(columns, c)]]

\* the rows a feed or status load presents to its table, in file order
Presented(call) ==
    IF call.op = "load_pimfile_to_db"
    THEN LET columns == <<"export_date">> \o pim_header(call.file, TableOf(call))
             data == pim_data(call.file, SnapshotOf(call))
         IN  [i \in DOMAIN data |-> AsRow(columns, data[i])]
    ELSE LET columns == <<"export_date", "Item no.">> \o call.file.header
             data == hybris_data(call.file, SnapshotOf(call))
         IN  [i \in DOMAIN data |-> AsRow(columns, data[i])]

\* rows r1 and r2 hold the same value in every column of K
Agree(r1, r2, K) == \A i \in DOMAIN K : r1[K[i]] = r2[K[i]]

\* stored row r holds presented row p
Holds(r, p) == \A c \in DOMAIN p : c \in DOMAIN r /\ r[c] = p[c]

\* C1 as the specification states it: a feed file loaded twice in a row into
\* an initially empty table, without drop and with the unique-key columns
\* load_pim_data selects for its category, first returns the number of its
\* data rows, then returns 0 and leaves the row count of the table unchanged.
C1_ReloadIdempotent ==
    (/\ last.op = "load_pimfile_to_db"
     /\ prev.call.op = "load_pimfile_to_db"
     /\ prev.call.file = last.file
     /\ ~last.drop /\ ~prev.call.drop
     /\ last.key = index_columns(TableOf(last))
     /\ prev.call.key = last.key
     /\ RowsOf(prev.pre.tables, TableOf(last)) = <<>>)
    => /\ prev.call.ret = Len(last.file.rows)
       /\ last.ret = 0
       /\ Len(RowsOf(tables, TableOf(last))) = Len(RowsOf(pre.tables, TableOf(last)))

\* a feed or status load without drop into a table that has a unique index,
\* presenting a row with the key of stored row i
PresentsStored(T, i) ==
    /\ last.op \in {"load_pimfile_to_db", "load_hybris_excel_to_db"}
    /\ ~last.drop
    /\ T = TableOf(last)
    /\ T \in DOMAIN pre.tables
    /\ pre.tables[T].index # <<>>
    /\ i \in DOMAIN pre.tables[T].rows
    /\ \E k \in DOMAIN Presented(last) :
          Agree(pre.tables[T].rows[i], Presented(last)[k], pre.tables[T].index)

Dest(call) ==
    IF call.op = "load_docfile_into_db"
    THEN {NormalizedOf[call.file.sheets[n].title] :
            n \in {m \in DOMAIN call.file.sheets :
                     LowerOf[call.file.sheets[m].title]
                        \in Range(DocConfig.file_sheets[Doc])}}
    ELSE {TableOf(call)}

RECURSIVE CountRows(_, _)
CountRows(ts, names) ==
    IF names = {} THEN 0
    ELSE LET n == CHOOSE m \in names : TRUE
         IN  Len(RowsOf(ts, n)) + CountRows(ts, names \ {n})

\* C3: a load without drop that returns, returns the number of rows its
\* destination tables hold after the call minus the number they held before
\* it (for a workbook, summed over its imported sheets).
C3_ReturnedCount ==
    (last.op \in Loaders /\ ~last.drop /\ ~last.err)
    => last.ret = CountRows(tables, Dest(last)) - CountRows(pre.tables, Dest(last))

\* a workbook of two imported sheets reloaded under a unique key: rows are
\* skipped as duplicates in both sheets and one row is new
C3_Witness ==
    /\ last.op = "load_docfile_into_db"
    /\ ~last.drop /\ ~last.err
    /\ last.file = DocA
    /\ last.key # <<>>
    /\ CountRows(pre.tables, Dest(last)) = 3
    /\ last.ret = 1

\* every load of table T so far passed the unique-key columns K
AlwaysPassed(T, K) ==
    /\ <<T, K>> \in passed
    /\ \A pr \in passed : pr[1] = T => pr[2] = K

TwoSnapshots(T) ==
    /\ last.op = "load_pimfile_to_db"
    /\ prev.call.op = "load_pimfile_to_db"
    /\ ~last.drop /\ ~prev.call.drop
    /\ T = TableOf(last)
    /\ T = TableOf(prev.call)
    /\ SnapshotOf(last) # SnapshotOf(prev.call)
    /\ AlwaysPassed(T, index_columns(T))
    /\ \A i \in DOMAIN RowsOf(prev.pre.tables, T) :
          RowsOf(prev.pre.tables, T)[i]["export_date"]
              \notin {SnapshotOf(last), SnapshotOf(prev.call)}

\* no earlier line of the file of call has the unique key of its line k
FirstOfKey(call, k) ==
    \/ call.key = <<>>
    \/ \A m \in 1..(k - 1) : ~Agree(Presented(call)[m], Presented(call)[k], call.key)

\* the rows the last call added to table T carry its snapshot key, and so
\* do the rows the call before it added, which are still stored
StampedByFile(T) ==
    /\ \A j \in DOMAIN RowsOf(tables, T) :
          j > Len(RowsOf(pre.tables, T))
          => RowsOf(tables, T)[j]["export_date"] = SnapshotOf(last)
    /\ \A j \in DOMAIN RowsOf(pre.tables, T) :
          /\ j \in DOMAIN RowsOf(tables, T)
          /\ RowsOf(tables, T)[j] = RowsOf(pre.tables, T)[j]
          /\ j > Len(RowsOf(prev.pre.tables, T))
             => RowsOf(pre.tables, T)[j]["export_date"] = SnapshotOf(prev.call)

C6_LabelIffInserted ==
    (last.op \in Loaders /\ ~last.err)
    => /\ (last.added > 0) <=> (Truthy(last.label) /\ last.ret > 0)
       /\ last.ret = 0 => labels = pre.labels

\* C7 as the specification states it: one run of load_pim_data or of
\* load_doc_data executes db_add_label at most once.
C7_LabelOncePerBatch ==
    last.op \in {"load_pim_data", "load_doc_data"} => last.added <= 1

\* the <<type, snapshot key>> pairs the call wrote its label to
Written(call) ==
    IF call.op = "db_add_label" THEN {<<call.type, call.date>>}
    ELSE IF call.op \in {"none", "list"} THEN {}
    ELSE IF call.added = 0 THEN {}
    ELSE IF call.op \in {"load_docfile_into_db", "load_doc_data"}
    THEN {<<"doc", call.date>>}
    ELSE IF call.op = "load_pim_data"
    THEN {<<"pim", DateOf[call.files[1].name].val>>}
    ELSE IF call.op = "load_pimfile_to_db" THEN {<<"pim", SnapshotOf(call)>>}
    ELSE {<<"hybris", SnapshotOf(call)>>}

LabelDates(lt) == {lt.rows[i].date : i \in DOMAIN lt.rows}

\* C8: a label table holds at most one row per snapshot key, and after a
\* call the label of a key is the text of that call if it wrote the key's
\* label, and the label it had before otherwise.
C8_LabelUpsert ==
    \A d \in DatasetTypes :
        /\ \A i, j \in DOMAIN labels[d].rows :
              labels[d].rows[i].date = labels[d].rows[j].date => i = j
        /\ \A date \in LabelDates(labels[d]) \cup LabelDates(pre.labels[d]) :
              JoinedLabel(labels[d], date) =
                  IF <<d, date>> \in Written(last) THEN last.label
                  ELSE JoinedLabel(pre.labels[d], date)

\* db_add_label called twice for one key with different texts
C8_Witness ==
    /\ last.op = "db_add_label"
    /\ prev.call.op = "db_add_label"
    /\ prev.call.type = last.type
    /\ prev.call.date = last.date
    /\ prev.call.label # last.label
    /\ Len(labels[last.type].rows) = 1

\* the data tables a listing of the type reads
DataTables(dataset_type) ==
    IF dataset_type = "pim" THEN {ItemAvailability}
    ELSE IF dataset_type = "hybris" THEN {SkusStatus}
    ELSE {doc_tables[n][1] : n \in DOMAIN doc_tables}

\* C9 as the specification states it: a listing whose data tables were
\* never created returns an empty sequence and raises no error.
C9_ListMissingTable ==
    (last.op = "list" /\ DataTables(last.type) \cap DOMAIN tables = {})
    => ~last.err /\ last.val = <<>>

\* the records of the last listing that stand for table T
RecordsOf(T) ==
    {k \in DOMAIN last.val : last.type = "doc" => last.val[k].sheet = T}

SnapshotColumn(dataset_type) ==
    IF dataset_type = "doc" THEN "request_date" ELSE "export_date"

SnapshotKeys(T, col) == {tables[T].rows[i][col] : i \in DOMAIN tables[T].rows}

\* C10 as the specification states it: a listing that returns holds, for
\* each table it lists, one record per snapshot key stored in the table,
\* with the number of rows stored under that key and the key's label, None
\* when it has none.
C10_Listing ==
    (last.op = "list" /\ ~last.err)
    => \A T \in DataTables(last.type) \cap DOMAIN tables :
          LET col == SnapshotColumn(last.type)
          IN  /\ \A k \in RecordsOf(T) : last.val[k].date \in SnapshotKeys(T, col)
              /\ \A d \in SnapshotKeys(T, col) :
                    /\ Cardinality({k \in RecordsOf(T) : last.val[k].date = d}) = 1
                    /\ \A k \in RecordsOf(T) :
                          last.val[k].date = d
                          => /\ last.val[k].count =
                                   Cardinality({i \in DOMAIN tables[T].rows :
                                                   tables[T].rows[i][col] = d})
                             /\ last.val[k].label = JoinedLabel(labels[last.type], d)

\* a listing in the order of its snapshot keys
Ordered(listing, descending) ==
    \A i, j \in DOMAIN listing :
        i < j => IF descending THEN ~DateLess(listing[i].date, listing[j].date)
                 ELSE ~DateLess(listing[j].date, listing[i].date)

\* C11: the sequence a listing returns is ordered by snapshot key,
\* non-decreasing when descending is false and non-increasing when it is
\* true, for the feed, the status and the document listing
C11_ListingOrdered ==
    (last.op = "list" /\ ~last.err) => Ordered(last.val, last.descending)

\* the sheets of a workbook that the configuration names, by position
ImportedSheets(file) ==
    {n \in DOMAIN file.sheets :
        LowerOf[file.sheets[n].title] \in Range(DocConfig.file_sheets[Doc])}

ConfiguredFields(sh) == Len(DocConfig.sheet_headers[LowerOf[sh.title]])

DataStart(sh) == DocConfig.start_rows[LowerOf[sh.title]].data

\* row j of a sheet cut to the configured fields
Fields(sh, j) == SubSeq(sh.rows[j], 1, Min(Len(sh.rows[j]), ConfiguredFields(sh)))

\* every configured field of row j is falsy after stripping and conversion
Blank(sh, j) == \A k \in DOMAIN Fields(sh, j) : ~TruthyCell(CleanCell(Fields(sh, j)[k]))

\* rows k, k+1, k+2 are blank, for some k from the data start row on with
\* k + 2 < j
AfterRun(sh, j) ==
    \E k \in DataStart(sh)..(j - 3) : \A m \in k..(k + 2) : Blank(sh, m)

\* the rows of a sheet the reader has to retain
Retained(sh) ==
    {j \in DataStart(sh)..Len(sh.rows) : ~Blank(sh, j) /\ ~AfterRun(sh, j)}

\* the rows a call added at the end of table T
NewRows(T) ==
    SubSeq(RowsOf(tables, T), Len(RowsOf(pre.tables, T)) + 1, Len(RowsOf(tables, T)))

\* stored row r is row j of sheet sh as the call last read it
StoredFrom(r, sh, j) ==
    /\ r["request_date"] = last.date
    /\ r["file_name"] = last.file.name
    /\ \A k \in DOMAIN Fields(sh, j) :
           r[sh.rows[1][k]] = CleanCell(Fields(sh, j)[k])

\* a call of load_docfile_into_db that returned, on tables it did not drop
ReadSheets == last.op = "load_docfile_into_db" /\ ~last.err /\ ~last.drop

\* C12: the document reader stops at 3 consecutive blank rows at or after
\* the data start row: every row a load adds to a sheet's table is a
\* non-blank row of the sheet that no such run precedes, and the load adds
\* no more rows than there are of these
C12_StopsAfterRun ==
    ReadSheets =>
        \A n \in ImportedSheets(last.file) :
            LET sh == last.file.sheets[n]
                new == NewRows(NormalizedOf[sh.title])
            IN  /\ Len(new) <= Cardinality(Retained(sh))
                /\ \A i \in DOMAIN new :
                       \E j \in Retained(sh) : StoredFrom(new[i], sh, j)

\* a workbook whose sheet has a non-blank row after three blank rows in a
\* row was loaded: one row of two was stored
C12_Witness ==
    /\ ReadSheets
    /\ \E n \in ImportedSheets(last.file) :
           LET sh == last.file.sheets[n]
           IN  /\ \E j \in DataStart(sh)..Len(sh.rows) : ~Blank(sh, j) /\ AfterRun(sh, j)
               /\ Len(NewRows(NormalizedOf[sh.title])) = 1

\* C13: the document reader retains every non-blank row at or after the
\* data start row that no run of 3 consecutive blank rows precedes: blank
\* rows in runs shorter than 3 do not end the scan (on a table without a
\* unique index, where no row is ignored)
C13_RetainsRows ==
    ReadSheets =>
        \A n \in ImportedSheets(last.file) :
            LET sh == last.file.sheets[n]
                T == NormalizedOf[sh.title]
                new == NewRows(T)
            IN  (T \in DOMAIN tables /\ tables[T].index = <<>>) =>
                    /\ Len(new) = Cardinality(Retained(sh))
                    /\ \A j \in Retained(sh) :
                           \E i \in DOMAIN new : StoredFrom(new[i], sh, j)

\* the category and the timestamp of a feed file can be read from its name
WellNamed(f) == ~PrefixOf[f.name].err /\ ~DateOf[f.name].err

\* load_pimfile_to_db on file f as load_pim_data calls it
AsFeedLoad(f) ==
    [op |-> "load_pimfile_to_db", file |-> f,
     key |-> index_columns(PrefixOf[f.name].val)]

\* table tbs holds every data line of feed file f that does not repeat the
\* unique key of an earlier line of f
HoldsFile(tbs, f) ==
    \A k \in DOMAIN Presented(AsFeedLoad(f)) :
        FirstOfKey(AsFeedLoad(f), k)
        => \E j \in DOMAIN RowsOf(tbs, PrefixOf[f.name].val) :
               Holds(RowsOf(tbs, PrefixOf[f.name].val)[j], Presented(AsFeedLoad(f))[k])

\* C14 as the specification states it: a run of load_pim_data on a folder
\* with a file whose name cannot be parsed, without drop, leaves the rows of
\* every well-named file of the folder stored, wherever the bad file comes
\* in the order of the files.
C14_BadFileSkipped ==
    (/\ last.op = "load_pim_data"
     /\ ~last.drop
     /\ \E n \in DOMAIN last.files : ~WellNamed(last.files[n]))
    => \A n \in DOMAIN last.files :
           WellNamed(last.files[n]) => HoldsFile(tables, last.files[n])

\* the number of files a failed run of load_pim_data loaded before the file
\* that failed
LoadedBefore ==
    CHOOSE m \in 0..Len(last.files) :
        /\ ~load_pim_data(pre.tables, pre.labels, SubSeq(last.files, 1, m),
                          last.label, last.drop).err
        /\ \A k \in (m + 1)..Len(last.files) :
               load_pim_data(pre.tables, pre.labels, SubSeq(last.files, 1, k),
                             last.label, last.drop).err

\* the store the loads of the files before the failed one left
StoreBefore ==
    load_pim_data(pre.tables, pre.labels, SubSeq(last.files, 1, LoadedBefore),
                  last.label, last.drop).val

\* the table the failed file of the run was to be loaded into, if its name
\* tells
FailedTable ==
    LET f == last.files[LoadedBefore + 1]
    IN  IF PrefixOf[f.name].err THEN {} ELSE {PrefixOf[f.name].val}

\* the columns and rows of table T are those the files before the failed
\* one left
Kept(T) ==
    /\ T \in DOMAIN tables
    /\ tables[T].cols = StoreBefore.tables[T].cols
    /\ tables[T].rows = StoreBefore.tables[T].rows

\* C15 as the specification states it: when a file of a run of
\* load_pim_data fails, every table the files before it created is stored
\* with the columns and rows they left, and so are the labels.
C15_NoRollback ==
    (last.op = "load_pim_data" /\ last.err)
    => /\ labels = StoreBefore.labels
       /\ \A T \in DOMAIN StoreBefore.tables : Kept(T)

\* C15 as far as it holds: the same, but for the table of the failed file
\* when the run drops tables, which the failed load dropped before it failed.
C15_NoRollbackButDrop ==
    (last.op = "load_pim_data" /\ last.err)
    => /\ labels = StoreBefore.labels
       /\ \A T \in DOMAIN StoreBefore.tables :
              (last.drop /\ T \in FailedTable) \/ Kept(T)

\* the second file of a run failed after the first stored rows and a label
C15_Witness ==
    /\ last.op = "load_pim_data" /\ last.err
    /\ LoadedBefore = 1
    /\ labels # pre.labels
    /\ labels["pim"].rows # <<>>
    /\ \E T \in DOMAIN StoreBefore.tables :
           /\ Kept(T)
           /\ Len(tables[T].rows) > Len(RowsOf(pre.tables, T))

\* the name of workbook f starts with a configured prefix
MatchesPrefix(f) ==
    \E k \in DOMAIN DocConfig.file_prefixes :
        StartsWith(lower(f.name), DocConfig.file_prefixes[k])

\* some table stores a row read from workbook f
StoredFromFile(f) ==
    \E T \in DOMAIN tables : \E i \in DOMAIN tables[T].rows :
        /\ "file_name" \in DOMAIN tables[T].rows[i]
        /\ tables[T].rows[i]["file_name"] = f.name

\* C16 as the specification states it: after a run of load_doc_data no
\* table stores a row of a workbook whose name starts with none of the
\* configured prefixes, and the other workbooks of the folder are loaded.
C16_UnknownPrefixSkipped ==
    last.op = "load_doc_data"
    => \A n \in DOMAIN last.files :
           IF MatchesPrefix(last.files[n])
           THEN \A m \in ImportedSheets(last.files[n]) :
                    Retained(last.files[n].sheets[m]) # {}
                    => StoredFromFile(last.files[n])
           ELSE ~StoredFromFile(last.files[n])

\* C17 as the specification states it: a load of one file is atomic. A load
\* without drop that ends with an error has stored no row, in any table it
\* writes to; a load that returns has stored every row it had to add (its
\* count is the number of rows added).
C17_FileAtomic ==
    (last.op \in Loaders /\ ~last.drop)
    => IF last.err
       THEN \A T \in Dest(last) : RowsOf(tables, T) = RowsOf(pre.tables, T)
       ELSE last.ret = CountRows(tables, Dest(last)) - CountRows(pre.tables, Dest(last))

\* C18 as the specification states it: a call of db_create_table with
\* unique-key columns K that returns leaves the table with a unique index
\* over exactly K, whatever the calls before it passed; the same call made
\* again returns and changes nothing.
C18_IndexOverKey ==
    (last.op = "db_create_table" /\ ~last.err /\ last.key # <<>>)
    => /\ tables[last.table].index = last.key
       /\ (prev.call.op = "db_create_table" /\ prev.call.key = last.key
               /\ ~prev.call.err)
          => tables = pre.tables

\* the last call was a load, or a run of load_pim_data, that drops no table
LoadWithoutDrop ==
    /\ last.op \in {"load_pimfile_to_db", "load_pim_data"}
    /\ ~last.drop

\* the feed file of the last call has a column that table T lacks
Incompatible(T) ==
    /\ last.op = "load_pimfile_to_db"
    /\ ~last.drop
    /\ T = TableOf(last)
    /\ T \in DOMAIN pre.tables
    /\ \E k \in DOMAIN last.file.header :
           pim_header(last.file, T)[k] \notin Range(pre.tables[T].cols)

\* C19: a load without drop leaves the columns of every table that exists
\* as they are; a load whose file has a column the table of its category
\* lacks ends with an error and leaves the columns and the rows of the table
\* as they are.
C19_ColumnsKept ==
    \A T \in DOMAIN pre.tables :
        /\ LoadWithoutDrop
           => (T \in DOMAIN tables /\ tables[T].cols = pre.tables[T].cols)
        /\ Incompatible(T)
           => /\ last.err
              /\ tables[T].cols = pre.tables[T].cols
              /\ tables[T].rows = pre.tables[T].rows

\* a file with other columns was loaded into a table that holds rows
C19_Witness ==
    \E T \in DOMAIN pre.tables :
        /\ Incompatible(T)
        /\ pre.tables[T].rows # <<>>
        /\ last.err

\* table tbs has, for every data line of feed file f, a row with the
\* unique key of the line (the line itself where the category has no key)
HoldsKeysOf(tbs, f) ==
    \A k \in DOMAIN Presented(AsFeedLoad(f)) :
        \E j \in DOMAIN RowsOf(tbs, PrefixOf[f.name].val) :
            IF AsFeedLoad(f).key = <<>>
            THEN Holds(RowsOf(tbs, PrefixOf[f.name].val)[j], Presented(AsFeedLoad(f))[k])
            ELSE Agree(RowsOf(tbs, PrefixOf[f.name].val)[j],
                       Presented(AsFeedLoad(f))[k], AsFeedLoad(f).key)

\* C20 as the specification states it: a run of load_pim_data that returns
\* has loaded the files of one category into one table that holds the rows
\* of every one of them, with the drop-tables option set or not.
C20_OneTablePerRun ==
    (last.op = "load_pim_data" /\ ~last.err)
    => \A n \in DOMAIN last.files : HoldsKeysOf(tables, last.files[n])

\* C20 as far as it holds: the same for a run that does not drop tables.
C20_OneTableWithoutDrop ==
    (last.op = "load_pim_data" /\ ~last.err /\ ~last.drop)
    => \A n \in DOMAIN last.files : HoldsKeysOf(tables, last.files[n])

\* a run without drop loaded two files of two snapshot keys into one table
C20_Witness ==
    /\ last.op = "load_pim_data" /\ ~last.err /\ ~last.drop
    /\ Len(last.files) = 2
    /\ PrefixOf[last.files[1].name].val = PrefixOf[last.files[2].name].val
    /\ DateOf[last.files[1].name].val # DateOf[last.files[2].name].val
    /\ last.ret = Len(last.files[1].rows) + Len(last.files[2].rows)

\* the last call dropped no table: it was a label, a listing, or a load or
\* a command without drop
WithoutDrop == last.op \in {"none", "db_add_label", "list"} \/ ~last.drop

\* label table lt2 has every row of label table lt1, under the same id and
\* snapshot key
KeepsLabels(lt1, lt2) ==
    /\ lt1.exists => lt2.exists
    /\ \A i \in DOMAIN lt1.rows :
           \E j \in DOMAIN lt2.rows :
               lt2.rows[j].id = lt1.rows[i].id /\ lt2.rows[j].date = lt1.rows[i].date

\* C21: a call that drops nothing deletes nothing: every table is still
\* there with the rows it had (new rows come after them), a unique index
\* that existed still exists, and every label row is still stored.
C21_NothingDeleted ==
    WithoutDrop =>
        /\ \A T \in DOMAIN pre.tables :
               /\ T \in DOMAIN tables
               /\ Len(pre.tables[T].rows) <= Len(tables[T].rows)
               /\ \A i \in DOMAIN pre.tables[T].rows :
                      tables[T].rows[i] = pre.tables[T].rows[i]
               /\ pre.tables[T].index # <<>> => tables[T].index = pre.tables[T].index
        /\ \A d \in DatasetTypes : KeepsLabels(pre.labels[d], labels[d])

\* a load without drop presented a stored key and a new one to a table
\* with a unique index, and attached its label
C21_Witness ==
    /\ last.op = "load_pimfile_to_db" /\ ~last.drop /\ ~last.err
    /\ RowsOf(pre.tables, TableOf(last)) # <<>>
    /\ pre.tables[TableOf(last)].index # <<>>
    /\ last.ret > 0
    /\ last.ret < Len(last.file.rows)
    /\ last.added = 1

\* the segments of the normalized stem of a name
Segments(name) == split(normalize_name(stem(name)))

\* C22: file_prefix raises ValueError exactly when the normalized stem has
\* fewer than 2 segments; otherwise it returns segment 0 when segment 1
\* starts with a digit and segments 0 and 1 joined by "_" when it does not;
\* it fails in no other way, and no segment it reads is empty.
C22_FilePrefix ==
    last.op = "file_prefix" =>
        IF Len(Segments(last.arg)) < 2
        THEN last.out.err /\ last.out.kind = "ValueError"
        ELSE /\ ~last.out.err
             /\ Segments(last.arg)[2] # <<>>
             /\ last.out.val =
                   IF IsDigit(Segments(last.arg)[2][1])
                   THEN Segments(last.arg)[1]
                   ELSE Segments(last.arg)[1] \o <<"_">> \o Segments(last.arg)[2]

\* a name whose stem has separators at its end and in a row, with a second
\* segment that starts with a digit
C22_Witness ==
    /\ last.op = "file_prefix"
    /\ last.arg = <<"a", "-", "_", "1">>
    /\ last.out = Ok(<<"a">>)

\* the places of a name where "_" is followed by a run of exactly 12 or
\* exactly 14 digits that the extension follows, at once or later
ExactRuns(name) ==
    {p \in DOMAIN name :
        /\ name[p] = "_"
        /\ DigitRun(name, p + 1) \in {12, 14}
        /\ HasCsvFrom(name, p + 1 + DigitRun(name, p + 1))}

LastOf(S) == CHOOSE p \in S : \A q \in S : q <= p

\* the timestamp a run of digits reads as
ReadRun(name, p) ==
    strptime(SubSeq(name, p + 1, p + DigitRun(name, p + 1)))

\* C23: get_export_date_from_file returns the timestamp of the last run of
\* exactly 12 or exactly 14 digits that follows "_" and is followed later by
\* the extension, and raises ValueError when the name has no such run.
C23_ExportDate ==
    last.op = "get_export_date_from_file" =>
        IF ExactRuns(last.arg) = {}
        THEN last.out.err /\ last.out.kind = "ValueError"
        ELSE last.out = ReadRun(last.arg, LastOf(ExactRuns(last.arg)))

\* a run of 12 and a run of 14 digits that give the same instant
C23_Witness ==
    /\ last.op = "get_export_date_from_file"
    /\ Len(last.arg) = 19
    /\ ExactRuns(last.arg) = {1}
    /\ DigitRun(last.arg, 2) = 14
    /\ last.out = Ok(Date1)

\* the characters normalize_name may leave in a name
NameAlphabet == Range(LowerLetters) \cup Range(Digits) \cup {"_"}

\* C24: normalize_name is idempotent, and its result holds only lowercase
\* letters, digits and "_", with no "_" at either end and no two in a row.
C24_Normalized ==
    last.op = "normalize_name" =>
        /\ normalize_name(last.out) = last.out
        /\ \A i \in DOMAIN last.out : last.out[i] \in NameAlphabet
        /\ last.out # <<>> => last.out[1] # "_" /\ last.out[Len(last.out)] # "_"
        /\ \A i \in 1..(Len(last.out) - 1) :
               ~(last.out[i] = "_" /\ last.out[i + 1] = "_")

\* a name with capitals, a run of separators inside and one at each end
C24_Witness ==
    /\ last.op = "normalize_name"
    /\ last.arg = <<"-", "B", ".", "_">>
    /\ last.out = <<"b">>

\* the days from 1 January 2000 to the first day of a year
DaysBeforeYear(y) ==
    365 * (y - 2000) + ((y - 1) \div 4 - (y - 1) \div 100 + (y - 1) \div 400) - 484

RECURSIVE DaysBeforeMonth(_, _)
DaysBeforeMonth(y, m) ==
    IF m = 1 THEN 0 ELSE DaysBeforeMonth(y, m - 1) + DaysInMonth(y, m - 1)

\* the whole seconds from 1 January 2000 to a time
SecondsOf(t) ==
    ((DaysBeforeYear(t[1]) + DaysBeforeMonth(t[1], t[2]) + t[3] - 1) * 24 + t[4]) * 3600
        + t[5] * 60 + t[6]

\* C25: round_seconds rounds half up: its result has no sub-second part and
\* is the whole second of its argument when the sub-second part is under
\* half a second and the next second, carrying into the minute, hour and
\* date, when it is half a second or more.
C25_RoundHalfUp ==
    last.op = "round_seconds" =>
        /\ Len(last.out) = 6
        /\ ValidDateTime(last.out)
        /\ SecondsOf(last.out) =
               SecondsOf(last.arg) + (IF last.arg[7] >= 500000 THEN 1 ELSE 0)

\* half a second before midnight on the last day of a year
C25_Witness ==
    /\ last.op = "round_seconds"
    /\ last.arg = <<2024, 12, 31, 23, 59, 59, 500000>>
    /\ last.out = <<2025, 1, 1, 0, 0, 0>>

\* C26: the list command shows the datasets of every source type in
\* descending order of snapshot key when --descending is given and in
\* ascending order when it is not.
C26_ListFollowsFlag ==
    (last.op = "list_data" /\ ~last.err) =>
        /\ Ordered(last.pim, last.descending)
        /\ Ordered(last.hybris, last.descending)
        /\ Ordered(last.doc, last.descending)

\* the command as far as it holds: whatever the flag, the feed and the
\* status datasets are shown in ascending order
C26_ListAscending ==
    (last.op = "list_data" /\ ~last.err) =>
        Ordered(last.pim, FALSE) /\ Ordered(last.hybris, FALSE)

\* the command with --descending over two snapshots of the feed
C26_Witness ==
    /\ last.op = "list_data" /\ ~last.err /\ last.descending
    /\ Len(last.pim) = 2
    /\ DateLess(last.pim[1].date, last.pim[2].date)

\* a load that dropped its destination first and returned
DropLoad == last.op \in Loaders /\ last.drop /\ ~last.err

\* the lines of a feed or status file that do not repeat the unique key of
\* an earlier line
Firsts(call) == {k \in DOMAIN Presented(call) : FirstOfKey(call, k)}

\* the table of a feed or status load holds its lines and nothing else:
\* every line when all is true, else every line that is the first of its key
HoldsOnly(call, rows, all) ==
    /\ Len(rows) = IF all THEN Len(Presented(call)) ELSE Cardinality(Firsts(call))
    /\ \A k \in DOMAIN Presented(call) :
           (all \/ FirstOfKey(call, k))
           => \E j \in DOMAIN rows : Holds(rows[j], Presented(call)[k])
    /\ \A j \in DOMAIN rows :
           \E k \in DOMAIN Presented(call) : Holds(rows[j], Presented(call)[k])

\* the table of a sheet holds rows of the sheet as the call read it and
\* nothing else; all of them when no unique key is passed
HoldsSheet(sh, rows) ==
    /\ Len(rows) <= Cardinality(Retained(sh))
    /\ last.key = <<>> => Len(rows) = Cardinality(Retained(sh))
    /\ \A i \in DOMAIN rows : \E j \in Retained(sh) : StoredFrom(rows[i], sh, j)

\* what a load that drops its destination leaves: the destination tables
\* hold the file, every other table is as it was, and so is every label
\* but the one the load attached
Replaced(all) ==
    /\ last.op # "load_docfile_into_db"
       => /\ TableOf(last) \in DOMAIN tables
          /\ HoldsOnly(last, tables[TableOf(last)].rows, all)
    /\ last.op = "load_docfile_into_db"
       => \A n \in ImportedSheets(last.file) :
              /\ NormalizedOf[last.file.sheets[n].title] \in DOMAIN tables
              /\ HoldsSheet(last.file.sheets[n],
                            tables[NormalizedOf[last.file.sheets[n].title]].rows)
    /\ \A T \in DOMAIN pre.tables \ Dest(last) :
           T \in DOMAIN tables /\ tables[T] = pre.tables[T]
    /\ \A d \in DatasetTypes :
           /\ pre.labels[d].exists => labels[d].exists
           /\ \A i \in DOMAIN pre.labels[d].rows :
                  <<d, pre.labels[d].rows[i].date>> \notin Written(last)
                  => \E j \in DOMAIN labels[d].rows :
                         labels[d].rows[j] = pre.labels[d].rows[i]

\* db_drop_tables on one name, in any state: an absent table is left
\* absent and nothing changes, a stored one goes and every other table stays
DropsOne(T) ==
    /\ T \notin DOMAIN db_drop_tables(tables, <<T>>)
    /\ T \notin DOMAIN tables => db_drop_tables(tables, <<T>>) = tables
    /\ \A U \in DOMAIN tables \ {T} :
           /\ U \in DOMAIN db_drop_tables(tables, <<T>>)
           /\ db_drop_tables(tables, <<T>>)[U] = tables[U]

TableNames == {ItemAvailability, ItemTexts, SkusStatus, DocCert, DocSku}

LabelledRun ==
    /\ last.op \in {"load_pim_data", "load_doc_data"}
    /\ ~last.err
    /\ Truthy(last.label)
    /\ last.ret > 0
    /\ last.op = "load_pim_data"
       => \A i \in DOMAIN last.files :
              DateOf[last.files[i].name] = DateOf[last.files[1].name]

\* the snapshot key of such a run
RunKey ==
    IF last.op = "load_pim_data" THEN DateOf[last.files[1].name].val ELSE last.date

RunType == IF last.op = "load_pim_data" THEN "pim" ELSE "doc"

\* C28: after a run of load_pim_data or load_doc_data with a non-empty
\* label L whose files share one snapshot key and of which at least one
\* inserted a row, the label of that snapshot key is L, whichever file came
\* first and whichever inserted.
C28_LabelForSnapshot ==
    LabelledRun => db_get_label_for_date(labels, RunType, RunKey) = last.label

\* a run whose first file inserted nothing and whose second file inserted
C28_Witness ==
    /\ LabelledRun
    /\ last.op = "load_pim_data"
    /\ Len(last.files) = 2
    /\ HoldsFile(pre.tables, last.files[1])
    /\ ~HoldsFile(pre.tables, last.files[2])

\* a call of load_docfile_into_db on a workbook without a configured sheet
NoSheetRead == last.op = "load_docfile_into_db" /\ ImportedSheets(last.file) = {}

\* C30: load_docfile_into_db on a workbook none of whose sheets is
\* configured returns 0, raises nothing and leaves every table and every
\* label as it was, with a label or without one.
C30_NoSheetNoChange ==
    NoSheetRead =>
        /\ ~last.err
        /\ last.ret = 0
        /\ tables = pre.tables
        /\ labels = pre.labels

\* the call as far as it holds: without a label it returns 0, and with or
\* without one no table and no label changes
C30_NoSheetUnlabelled ==
    NoSheetRead =>
        /\ ~Truthy(last.label) => ~last.err /\ last.ret = 0
        /\ tables = pre.tables
        /\ labels = pre.labels

\* such a workbook read with a label into a database that holds rows
C30_Witness ==
    /\ NoSheetRead
    /\ Truthy(last.label)
    /\ pre.tables # <<>>

\* a call of load_pimfile_to_db on a file whose category or timestamp cannot
\* be read from its name
Unidentified == last.op = "load_pimfile_to_db" /\ ~WellNamed(last.file)

\* C29: when load_pimfile_to_db cannot read the category or the timestamp
\* from the name of its file it raises and leaves the database as it was:
\* no table is created or dropped, no row is inserted and no label is
\* written, with drop_table_first true as well.
C29_UnidentifiedNoChange ==
    Unidentified =>
        /\ last.err /\ last.kind = "ValueError"
        /\ tables = pre.tables
        /\ labels = pre.labels

\* a file of a known category without a timestamp, loaded with drop and a
\* label over a table of that category that holds rows
C29_Witness ==
    /\ Unidentified
    /\ last.drop /\ Truthy(last.label)
    /\ ~PrefixOf[last.file.name].err
    /\ RowsOf(pre.tables, PrefixOf[last.file.name].val) # <<>>

=============================================================================
